---------------------------- MODULE Spec2Model ----------------------------
(***************************************************************************)
(* A model of caloud's byte-stream pipelines:                              *)
(*   - the input rewrite engine (src/input_rewrite/rewriter.rs),           *)
(*   - the output byte buffer and fragmenter (src/tty_text/buffer.rs,      *)
(*     src/tty_text/fragment.rs, src/tty_text/reformat.rs).                *)
(* Bytes are natural numbers; byte strings are sequences, so index k of a  *)
(* Rust slice is index k + 1 here.                                         *)
(***************************************************************************)
EXTENDS Integers, Sequences, FiniteSets, TLC

(***************************************************************************)
(* Bounds of the model.                                                    *)
(***************************************************************************)
\* most rules handed to InputRewriter::new
MaxRules == 2
\* longest `from` of a rule
MaxFromLen == 3
\* longest input fed to InputRewriter::rewrite
MaxInput == 3
\* the ambiguity timeout (pending_timeout), in clock ticks
TimeoutTicks == 1
\* most interrupted poll/read calls (EINTR) in one run
MaxInterrupts == 1

(***************************************************************************)
(* Generic helpers on byte strings.                                        *)
(***************************************************************************)
\* all sequences over S of length lo..hi
SeqsOf(S, lo, hi) == UNION {[1..n -> S] : n \in lo..hi}

\* slice::starts_with
StartsWith(s, p) == Len(p) <= Len(s) /\ SubSeq(s, 1, Len(p)) = p

\* s[k..] of Rust (k zero-based): the suffix after the first k elements
Drop(s, k) == SubSeq(s, k + 1, Len(s))

\* s[..k] of Rust
Take(s, k) == SubSeq(s, 1, k)

RECURSIVE Flatten(_)
Flatten(ss) == IF ss = <<>> THEN <<>> ELSE Head(ss) \o Flatten(Tail(ss))

(***************************************************************************)
(* Input rewrite engine: rules.                                            *)
(***************************************************************************)
\* the bytes input and `from` patterns are drawn from (the tests' alphabet)
RwAlphabet == {0, 1}

\* replacement strings: the empty one (delete on match) and one that holds
\* a byte of the alphabet and a byte outside it
RwTos == {<<>>, <<1, 2>>}

\* RewriteRule: non-empty from, any to
RewriteRule == [from : SeqsOf(RwAlphabet, 1, MaxFromLen), to : RwTos]

\* mutant of Dedup: the last rule supplied with a from is the one kept
Dedup_LastWins(raw) ==
    LET keep(i) == \A j \in (i + 1)..Len(raw) : raw[j].from # raw[i].from
        F[i \in 0..Len(raw)] ==
            IF i = 0 THEN <<>>
            ELSE IF keep(i) THEN Append(F[i - 1], raw[i]) ELSE F[i - 1]
    IN  F[Len(raw)]

\* the `seen.insert(from)` filter of InputRewriter::new: keep a rule iff no
\* earlier rule has its from
Dedup(raw) ==
    LET keep(i) == \A j \in 1..(i - 1) : raw[j].from # raw[i].from
        F[i \in 0..Len(raw)] ==
            IF i = 0 THEN <<>>
            ELSE IF keep(i) THEN Append(F[i - 1], raw[i]) ELSE F[i - 1]
    IN  F[Len(raw)]

\* mutant of SortLongestFirst: the rules stay in the order supplied
SortLongestFirst_Unsorted(rs) == rs

\* sort_by_key(usize::MAX - from.len()): a stable sort, longest from first.
\* Stable insertion: each rule goes after every rule at least as long.
InsertByLen(sorted, r) ==
    LET k == Cardinality({i \in 1..Len(sorted) :
                             Len(sorted[i].from) >= Len(r.from)})
    IN  Take(sorted, k) \o <<r>> \o Drop(sorted, k)

SortLongestFirst(rs) ==
    LET F[i \in 0..Len(rs)] ==
            IF i = 0 THEN <<>> ELSE InsertByLen(F[i - 1], rs[i])
    IN  F[Len(rs)]

\* InputRewriter::new: the rule list the rewriter keeps
NewRules(raw) == SortLongestFirst(Dedup(raw))

(***************************************************************************)
(* Input rewrite engine: drain.                                            *)
(***************************************************************************)
\* mutant of MightMatchLongerRule: the length comparison is off by one
MightMatchLongerRule_OffByOne(rs, remaining) ==
    \E k \in 1..Len(rs) :
        /\ Len(rs[k].from) > Len(remaining) + 1
        /\ StartsWith(rs[k].from, remaining)

\* `rules.iter().any(|rule| from.len() > remaining.len()
\*                          && from.starts_with(remaining))`
MightMatchLongerRule(rs, remaining) ==
    \E k \in 1..Len(rs) :
        /\ Len(rs[k].from) > Len(remaining)
        /\ StartsWith(rs[k].from, remaining)

\* the `for rule in &self.rules` scan: index of the first rule whose from is
\* a prefix of remaining, 0 when there is none
FirstMatch(rs, remaining) ==
    LET hits == {k \in 1..Len(rs) : StartsWith(remaining, rs[k].from)}
    IN  IF hits = {} THEN 0 ELSE CHOOSE k \in hits : \A h \in hits : k <= h

\* mutant of DrainLoop: an unmatched byte is copied from the head of the
\* accumulator instead of the head of remaining
RECURSIVE DrainLoop_CopiesBufferHead(_, _, _, _, _, _)
DrainLoop_CopiesBufferHead(rs, buf, force, i, writes, applied) ==
    IF i >= Len(buf) THEN [writes |-> writes, applied |-> applied, i |-> i]
    ELSE
        LET remaining == Drop(buf, i) IN
        IF ~force /\ \E k \in 1..Len(rs) :
                         /\ Len(rs[k].from) > Len(remaining)
                         /\ StartsWith(rs[k].from, remaining)
        THEN [writes |-> writes, applied |-> applied, i |-> i]
        ELSE
            LET hits == {k \in 1..Len(rs) : StartsWith(remaining, rs[k].from)}
                k == IF hits = {} THEN 0
                     ELSE CHOOSE h \in hits : \A g \in hits : h <= g
            IN
            IF k # 0
            THEN DrainLoop_CopiesBufferHead(rs, buf, force,
                     i + Len(rs[k].from),
                     IF rs[k].to # <<>> THEN Append(writes, rs[k].to)
                                        ELSE writes,
                     Append(applied, rs[k]))
            ELSE DrainLoop_CopiesBufferHead(rs, buf, force, i + 1,
                     Append(writes, <<buf[1]>>), applied)

\* the while loop of drain from offset i: the write_all calls it makes
\* (writes), the rules it applies (applied) and the offset it stops at (i)
RECURSIVE DrainLoop(_, _, _, _, _, _)
DrainLoop(rs, buf, force, i, writes, applied) ==
    IF i >= Len(buf) THEN [writes |-> writes, applied |-> applied, i |-> i]
    ELSE
        LET remaining == Drop(buf, i) IN
        IF ~force /\ MightMatchLongerRule(rs, remaining)
        THEN [writes |-> writes, applied |-> applied, i |-> i]
        ELSE
            LET k == FirstMatch(rs, remaining) IN
            IF k # 0
            THEN DrainLoop(rs, buf, force, i + Len(rs[k].from),
                           IF rs[k].to # <<>> THEN Append(writes, rs[k].to)
                                              ELSE writes,
                           Append(applied, rs[k]))
            ELSE DrainLoop(rs, buf, force, i + 1,
                           Append(writes, <<remaining[1]>>), applied)

\* mutant of Drain: the force flag is not handed to the loop
Drain_ForceDropped(rs, buf, force) == DrainLoop(rs, buf, FALSE, 0, <<>>, <<>>)

\* drain(writer, force): the loop from offset 0
Drain(rs, buf, force) == DrainLoop(rs, buf, force, 0, <<>>, <<>>)


(***************************************************************************)
(* The tests' reference transform (rewrite_bytes_naively).                 *)
(***************************************************************************)
\* `seen.insert(from)` over rules.iter(): first occurrence of each from
NaiveDedup(raw) ==
    LET seen(i) == {raw[j].from : j \in 1..(i - 1)}
    IN  [k \in 1..Cardinality({i \in 1..Len(raw) : raw[i].from \notin seen(i)}) |->
            raw[CHOOSE i \in 1..Len(raw) :
                    /\ raw[i].from \notin seen(i)
                    /\ Cardinality({j \in 1..i : raw[j].from \notin seen(j)}) = k]]

\* filter(starts_with).max_by_key(from.len()): the last rule of maximal
\* length among those matching, 0 when none matches
NaiveLongestMatch(rs, rest) ==
    LET hits == {k \in 1..Len(rs) : StartsWith(rest, rs[k].from)}
    IN  IF hits = {} THEN 0
        ELSE CHOOSE k \in hits :
                 \A h \in hits :
                     \/ Len(rs[h].from) < Len(rs[k].from)
                     \/ (Len(rs[h].from) = Len(rs[k].from) /\ h <= k)

RECURSIVE NaiveLoop(_, _, _)
NaiveLoop(rs, inp, i) ==
    IF i >= Len(inp) THEN <<>>
    ELSE
        LET k == NaiveLongestMatch(rs, Drop(inp, i)) IN
        IF k # 0 THEN rs[k].to \o NaiveLoop(rs, inp, i + Len(rs[k].from))
        ELSE <<inp[i + 1]>> \o NaiveLoop(rs, inp, i + 1)

RewriteBytesNaively(raw, inp) == NaiveLoop(NaiveDedup(raw), inp, 0)

(***************************************************************************)
(* Input rewrite engine: state.                                            *)
(***************************************************************************)
VARIABLES
    rawRules,    \* the rules handed to InputRewriter::new
    rules,       \* InputRewriter.rules
    buffer,      \* InputRewriter.buffer, the pending accumulator
    input,       \* every byte the source will deliver before it is closed
    pos,         \* how many bytes of input rewrite has read
    out,         \* every byte written to the sink so far
    rstate,      \* "running" inside the loop of rewrite, "done" after
                 \* Ok(()), "error" after Err
    idle,        \* ticks the current poll call has been waiting
    age,         \* age[k]: ticks since buffer[k] was read
    interrupts,  \* interrupted poll/read calls so far
    timeouts,    \* poll timeouts so far
    applied,     \* the rules drain has applied so far, in order
    mark,        \* pos and out as the last poll timeout left them
    lastOp       \* the last step of rewrite and what it saw

rwVars == <<rawRules, rules, buffer, input, pos, out, rstate, idle, age,
            interrupts, timeouts, applied, mark, lastOp>>

\* mutant of HasPending: bytes are taken to be pending at all times
HasPending_Always(buf) == TRUE

\* has_pending
HasPending(buf) == buf # <<>>

\* mutant of PollTimeout: the timeout handed to poll is one tick too long
PollTimeout_TooLong(buf) == IF HasPending(buf) THEN TimeoutTicks + 1 ELSE -1

\* the timeout handed to poll: pending_timeout when bytes are pending,
\* -1 (wait for ever) otherwise
PollTimeout(buf) == IF HasPending(buf) THEN TimeoutTicks ELSE -1

RwInit ==
    /\ rawRules \in SeqsOf(RewriteRule, 0, MaxRules)
    /\ rules = NewRules(rawRules)
    /\ buffer = <<>>
    /\ input \in SeqsOf(RwAlphabet, 0, MaxInput)
    /\ pos = 0
    /\ out = <<>>
    /\ rstate = "running"
    /\ idle = 0
    /\ age = <<>>
    /\ interrupts = 0
    /\ timeouts = 0
    /\ applied = <<>>
    /\ mark = [pos |-> 0, out |-> <<>>]
    /\ lastOp = [op |-> "new"]

\* the state of an engine that is not running (used by the other pipelines)
RwIdle ==
    /\ rawRules = <<>>
    /\ rules = <<>>
    /\ buffer = <<>>
    /\ input = <<>>
    /\ pos = 0
    /\ out = <<>>
    /\ rstate = "done"
    /\ idle = 0
    /\ age = <<>>
    /\ interrupts = 0
    /\ timeouts = 0
    /\ applied = <<>>
    /\ mark = [pos |-> 0, out |-> <<>>]
    /\ lastOp = [op |-> "none"]


(***************************************************************************)
(* Input rewrite engine: the loop of rewrite, one action per way an        *)
(* iteration can go.                                                       *)
(***************************************************************************)
\* mutant of DrainAndFlush: the accumulator is shortened as the drain goes,
\* so a refused write_all leaves it without the bytes already handled
DrainAndFlush_DrainsBeforeWriting(op, buf, ages, force, okState, sinkFails) ==
    LET d == Drain(rules, buf, force) IN
    \E fail \in IF sinkFails THEN 1..(Len(d.writes) + 1) ELSE {0} :
        LET done    == IF fail = 0 THEN Len(d.writes) ELSE fail - 1
            wrote   == Flatten(Take(d.writes, done))
            drained == fail = 0 \/ fail = Len(d.writes) + 1
        IN  /\ out' = out \o wrote
            /\ buffer' = Drop(buf, IF drained THEN d.i ELSE done)
            /\ age' = Drop(ages, IF drained THEN d.i ELSE done)
            /\ applied' = IF fail = 0 THEN applied \o d.applied ELSE applied
            /\ rstate' = IF fail = 0 THEN okState ELSE "error"
            /\ lastOp' = [op |-> op, before |-> buffer, after |-> buf,
                          consumed |-> d.i, wrote |-> wrote, ok |-> fail = 0,
                          used |-> IF fail = 0 THEN d.applied ELSE <<>>,
                          failed |-> IF fail = 0 THEN "none"
                                     ELSE IF drained THEN "flush"
                                     ELSE "write_all"]

\* `self.drain(writer, force)?; writer.flush()?;` on the accumulator buf,
\* whose bytes have the ages ages. With sinkFails the sink refuses one of the
\* write_all calls of the drain, or the flush that follows it (fail = the
\* number of writes + 1). An Err of write_all leaves drain before
\* `self.buffer.drain(..i)`.
DrainAndFlush(op, buf, ages, force, okState, sinkFails) ==
    LET d == Drain(rules, buf, force) IN
    \E fail \in IF sinkFails THEN 1..(Len(d.writes) + 1) ELSE {0} :
        LET done    == IF fail = 0 THEN Len(d.writes) ELSE fail - 1
            wrote   == Flatten(Take(d.writes, done))
            drained == fail = 0 \/ fail = Len(d.writes) + 1
        IN  /\ out' = out \o wrote
            /\ buffer' = IF drained THEN Drop(buf, d.i) ELSE buf
            /\ age' = IF drained THEN Drop(ages, d.i) ELSE ages
            /\ applied' = IF fail = 0 THEN applied \o d.applied ELSE applied
            /\ rstate' = IF fail = 0 THEN okState ELSE "error"
            /\ lastOp' = [op |-> op, before |-> buffer, after |-> buf,
                          consumed |-> d.i, wrote |-> wrote, ok |-> fail = 0,
                          used |-> IF fail = 0 THEN d.applied ELSE <<>>,
                          failed |-> IF fail = 0 THEN "none"
                                     ELSE IF drained THEN "flush"
                                     ELSE "write_all"]

\* poll reports the source readable and read returns n > 0 bytes:
\* push, drain(false), flush, next iteration
RwRead ==
    /\ rstate = "running"
    /\ \E n \in 1..(Len(input) - pos) :
        /\ pos' = pos + n
        /\ DrainAndFlush("read", buffer \o SubSeq(input, pos + 1, pos + n),
                         age \o [k \in 1..n |-> 0], FALSE, "running", FALSE)
    /\ idle' = 0
    /\ UNCHANGED <<rawRules, rules, input, interrupts, timeouts, mark>>

\* mutant of RwEof: the drain at end-of-stream is not forced
RwEof_NotForced ==
    /\ rstate = "running"
    /\ pos = Len(input)
    /\ DrainAndFlush("eof", buffer, age, FALSE, "done", FALSE)
    /\ idle' = 0
    /\ UNCHANGED <<rawRules, rules, input, pos, interrupts, timeouts, mark>>

\* read returns 0 (the source is closed): drain(true), flush, return Ok
RwEof ==
    /\ rstate = "running"
    /\ pos = Len(input)
    /\ DrainAndFlush("eof", buffer, age, TRUE, "done", FALSE)
    /\ idle' = 0
    /\ UNCHANGED <<rawRules, rules, input, pos, interrupts, timeouts, mark>>

\* mutant of RwTimeout: the drain on a timeout is not forced
RwTimeout_NotForced ==
    /\ rstate = "running"
    /\ PollTimeout(buffer) >= 0
    /\ idle >= PollTimeout(buffer)
    /\ DrainAndFlush("timeout", buffer, age, FALSE, "running", FALSE)
    /\ idle' = 0
    /\ timeouts' = timeouts + 1
    /\ mark' = [pos |-> pos, out |-> out']
    /\ UNCHANGED <<rawRules, rules, input, pos, interrupts>>

\* poll returns 0: its timeout has run out with nothing to read;
\* drain(true), flush, next iteration
RwTimeout ==
    /\ rstate = "running"
    /\ PollTimeout(buffer) >= 0
    /\ idle >= PollTimeout(buffer)
    /\ DrainAndFlush("timeout", buffer, age, TRUE, "running", FALSE)
    /\ idle' = 0
    /\ timeouts' = timeouts + 1
    /\ mark' = [pos |-> pos, out |-> out']
    /\ UNCHANGED <<rawRules, rules, input, pos, interrupts>>

\* one tick of the clock goes by while poll waits: poll does not wait past
\* its timeout. Time is only followed while bytes are pending.
RwTick ==
    /\ rstate = "running"
    /\ PollTimeout(buffer) >= 0
    /\ idle < PollTimeout(buffer)
    /\ idle' = idle + 1
    /\ age' = [k \in 1..Len(age) |-> age[k] + 1]
    /\ UNCHANGED <<rawRules, rules, buffer, input, pos, out, rstate,
                   interrupts, timeouts, applied, mark, lastOp>>

\* poll or read fails with EINTR: `continue`, which polls again with a
\* fresh timeout
RwInterrupted ==
    /\ rstate = "running"
    /\ interrupts < MaxInterrupts
    /\ interrupts' = interrupts + 1
    /\ idle' = 0
    /\ UNCHANGED <<rawRules, rules, buffer, input, pos, out, rstate, age,
                   timeouts, applied, mark, lastOp>>


\* as RwRead, but the sink refuses one of the write_all calls of the drain
\* or the flush after it: `?` returns the error from rewrite
RwReadSinkFails ==
    /\ rstate = "running"
    /\ \E n \in 1..(Len(input) - pos) :
        /\ pos' = pos + n
        /\ DrainAndFlush("read", buffer \o SubSeq(input, pos + 1, pos + n),
                         age \o [k \in 1..n |-> 0], FALSE, "running", TRUE)
    /\ idle' = 0
    /\ UNCHANGED <<rawRules, rules, input, interrupts, timeouts, mark>>

\* as RwEof, but the sink refuses a write_all or the flush
RwEofSinkFails ==
    /\ rstate = "running"
    /\ pos = Len(input)
    /\ DrainAndFlush("eof", buffer, age, TRUE, "done", TRUE)
    /\ idle' = 0
    /\ UNCHANGED <<rawRules, rules, input, pos, interrupts, timeouts, mark>>

\* as RwTimeout, but the sink refuses a write_all or the flush
RwTimeoutSinkFails ==
    /\ rstate = "running"
    /\ PollTimeout(buffer) >= 0
    /\ idle >= PollTimeout(buffer)
    /\ DrainAndFlush("timeout", buffer, age, TRUE, "running", TRUE)
    /\ idle' = 0
    /\ timeouts' = timeouts + 1
    /\ UNCHANGED <<rawRules, rules, input, pos, interrupts, mark>>

\* poll or read fails with an error other than EINTR: `return Err(err)`
RwSourceFails ==
    /\ rstate = "running"
    /\ rstate' = "error"
    /\ lastOp' = [op |-> "source", before |-> buffer, after |-> buffer,
                  consumed |-> 0, wrote |-> <<>>, ok |-> FALSE,
                  used |-> <<>>, failed |-> "source"]
    /\ UNCHANGED <<rawRules, rules, buffer, input, pos, out, idle, age,
                   interrupts, timeouts, applied, mark>>



(***************************************************************************)
(* Input rewrite engine: properties.                                       *)
(***************************************************************************)
\* some configured from is strictly longer than s and begins with s
StrictPrefixOfSomeFrom(s) ==
    \E k \in 1..Len(rawRules) :
        /\ Len(s) < Len(rawRules[k].from)
        /\ \A j \in 1..Len(s) : rawRules[k].from[j] = s[j]

\* some configured from occurs in s
SomeFromOccursIn(s) ==
    \E k \in 1..Len(rawRules) : \E j \in 0..Len(s) :
        StartsWith(Drop(s, j), rawRules[k].from)

\* the offsets at which the reference transform stands while it walks inp
RECURSIVE NaiveStops(_, _, _)
NaiveStops(rs, inp, i) ==
    IF i >= Len(inp) THEN {}
    ELSE
        LET k == NaiveLongestMatch(rs, Drop(inp, i)) IN
        {i} \cup NaiveStops(rs, inp, IF k # 0 THEN i + Len(rs[k].from)
                                             ELSE i + 1)

\* length of the longest from the rewriter keeps, 0 when it keeps no rule
LongestFrom ==
    IF rules = <<>> THEN 0
    ELSE CHOOSE n \in {Len(rules[k].from) : k \in 1..Len(rules)} :
             \A k \in 1..Len(rules) : Len(rules[k].from) <= n

\* C1: when rewrite has returned Ok and no poll timeout has fired, the bytes
\* written to the sink are the reference transform of the whole input,
\* whatever the chunks the input was read in.
C1_ChunkedEqualsNaive ==
    (rstate = "done" /\ timeouts = 0)
        => out = RewriteBytesNaively(rawRules, input)

\* C1 witness: a run without timeout that ends with two rules kept, a rule
\* applied, and bytes of an earlier read still pending when the source
\* closed.
C1_Witness ==
    /\ rstate = "done"
    /\ timeouts = 0
    /\ Len(rules) = 2
    /\ applied # <<>>
    /\ lastOp.op = "eof"
    /\ lastOp.before # <<>>
    /\ Len(input) >= 3

\* C3: a poll timeout drains the pending bytes as end-of-stream would (the
\* reference transform of the pending bytes alone) and leaves the
\* accumulator empty; what is read afterwards is transformed on its own:
\* the final output is the output at the last timeout followed by the
\* reference transform of the input read after it.
C3_TimeoutForceDrains ==
    /\ lastOp.op = "timeout" =>
          /\ lastOp.before # <<>>
          /\ buffer = <<>>
          /\ lastOp.wrote = RewriteBytesNaively(rawRules, lastOp.before)
    /\ rstate = "done" =>
          out = mark.out \o RewriteBytesNaively(rawRules, Drop(input, mark.pos))

\* C3 witness: rule 0 1 -> 1 2, input 0, timeout, then 1: output 0 1.
C3_Witness ==
    /\ rstate = "done"
    /\ rawRules = <<[from |-> <<0, 1>>, to |-> <<1, 2>>]>>
    /\ input = <<0, 1>>
    /\ timeouts = 1
    /\ out = <<0, 1>>

\* C4: a drain that follows a read writes the reference transform of the
\* bytes it consumes and nothing else, never steps past an offset at which
\* the rest of the accumulator is a strict prefix of a rule's from, and
\* keeps exactly those bytes pending; so the bytes of one from that come in
\* separate reads are matched together.
C4_AmbiguousPrefixHeld ==
    lastOp.op = "read" =>
        /\ buffer = Drop(lastOp.after, lastOp.consumed)
        /\ buffer # <<>> => StrictPrefixOfSomeFrom(buffer)
        /\ lastOp.wrote =
               RewriteBytesNaively(rawRules, Take(lastOp.after, lastOp.consumed))
        /\ \A j \in NaiveStops(NaiveDedup(rawRules),
                               Take(lastOp.after, lastOp.consumed), 0) :
               ~StrictPrefixOfSomeFrom(Drop(lastOp.after, j))

\* C4 witness: the bytes of a from arrived in two reads, were matched
\* together, and the rule's to is all that was written.
C4_Witness ==
    /\ lastOp.op = "read"
    /\ lastOp.before # <<>>
    /\ Len(lastOp.after) > Len(lastOp.before)
    /\ timeouts = 0
    /\ \E k \in 1..Len(rules) :
           /\ rules[k].from = lastOp.after
           /\ rules[k].to # <<>>
           /\ out = rules[k].to
    /\ buffer = <<>>

\* C5 as claimed, on the runs in which no call is interrupted: no pending
\* byte is older than one timeout period.
C5_Claimed_AgeWithinOnePeriod ==
    interrupts = 0 => \A k \in 1..Len(age) : age[k] <= TimeoutTicks

\* C5 amended: one wait of poll lasts at most one timeout period, and every
\* read and every interrupted call starts a new wait; a pending byte is at
\* most (L - 1) periods old, L the longest from, plus one period for each
\* interrupted call.
C5_WaitWithinOnePeriod ==
    (rstate = "running" /\ buffer # <<>>) =>
        /\ idle <= TimeoutTicks
        /\ Len(age) = Len(buffer)
        /\ \A k \in 1..Len(age) :
               /\ age[k] >= idle
               /\ age[k] <= (LongestFrom - 1 + interrupts) * TimeoutTicks

\* C5 witness: with no interrupted call, a byte has been pending for more
\* than one timeout period because a later read restarted the wait.
C5_Witness ==
    /\ rstate = "running"
    /\ interrupts = 0
    /\ TimeoutTicks > 0
    /\ \E k \in 1..Len(age) : age[k] > TimeoutTicks

C7_FirstRuleWins ==
    /\ \A a, b \in 1..Len(rules) : rules[a].from = rules[b].from => a = b
    /\ \A k \in 1..Len(applied) :
           \E i \in 1..Len(rawRules) :
               /\ rawRules[i] = applied[k]
               /\ \A j \in 1..(i - 1) : rawRules[j].from # applied[k].from

\* C7 witness: two rules with one from and different to were supplied and
\* the first has been applied.
C7_Witness ==
    /\ rstate = "done"
    /\ Len(rawRules) = 2
    /\ rawRules[1].from = rawRules[2].from
    /\ rawRules[1].to # rawRules[2].to
    /\ applied # <<>>
    /\ applied[1] = rawRules[1]

\* C8: with no rule, every byte read has been written as it is and nothing
\* is pending, at every point of the loop.
C8_NoRulesIdentity ==
    rawRules = <<>> =>
        /\ out = Take(input, pos)
        /\ buffer = <<>>
        /\ rstate = "done" => out = input

\* C8 witness: with no rule, an input of two bytes or more has been copied
\* and rewrite has returned.
C8_Witness ==
    /\ rawRules = <<>>
    /\ rstate = "done"
    /\ Len(input) >= 2
    /\ out = input


(***************************************************************************)
(* Fragmenter (src/tty_text/fragment.rs).                                  *)
(***************************************************************************)
ESC == 27
BEL == 7
LF == 10
\* the ASCII codes of ] [ \ ; ? and of the digits and letters the
\* classifier compares with
RBracket == 93
LBracket == 91
Backslash == 92
Semicolon == 59
Question == 63
Digit0 == 48
Digit2 == 50
Digit5 == 53
Digit6 == 54
Digit9 == 57
LowerH == 104
LowerL == 108

\* u8::is_ascii_digit
IsAsciiDigit(b) == b \in 48..57

\* iter().position(|b| b in S): the zero-based index of the first element
\* of s that is in S, -1 for None
FirstIn(s, S) ==
    LET hits == {i \in 1..Len(s) : s[i] \in S}
    IN  IF hits = {} THEN -1
        ELSE (CHOOSE i \in hits : \A h \in hits : i <= h) - 1

\* windows(2).position(|w| w == [a, b]): zero-based, -1 for None
FirstPair(s, a, b) ==
    LET hits == {i \in 1..(Len(s) - 1) : s[i] = a /\ s[i + 1] = b}
    IN  IF hits = {} THEN -1
        ELSE (CHOOSE i \in hits : \A h \in hits : i <= h) - 1

Min(a, b) == IF a <= b THEN a ELSE b

\* Option::None of EscapeSequence::parse and Fragment::parse
None == [some |-> FALSE]

\* Some((consumed, escape_sequence)); payload is the slice a
\* SetWindowAndIconTitle or PostNotification carries
SomeSeq(n, esc, payload) ==
    [some |-> TRUE, n |-> n, esc |-> esc, payload |-> payload]

\* mutant of EmitIncomplete: the flag is not looked at
EmitIncomplete_Always(data, allow_incomplete) ==
    SomeSeq(Len(data), "Incomplete", <<>>)

\* the emit_incomplete closure
EmitIncomplete(data, allow_incomplete) ==
    IF allow_incomplete THEN SomeSeq(Len(data), "Incomplete", <<>>) ELSE None

\* has_conemu_osc9_parameter on the payload p
HasConemuOsc9Parameter(p) ==
    LET semi  == FirstIn(p, {Semicolon})
        first == IF semi = -1 THEN p ELSE Take(p, semi)
    IN  \/ p \in {<<Digit5>>, <<49, Digit0>>, <<49, Digit2>>}
        \/ \A i \in 1..Len(first) : IsAsciiDigit(first[i])

\* the `data[1] == b']'` branch of EscapeSequence::parse
ParseOsc(data, allow_incomplete) ==
    LET rest == Drop(data, 2)
        bel  == FirstIn(rest, {BEL})
        st   == FirstPair(rest, ESC, Backslash)
    IN  IF bel = -1 /\ st = -1 THEN EmitIncomplete(data, allow_incomplete)
        ELSE
            LET parameter_end     == IF bel # -1 THEN 2 + bel ELSE 2 + st
                terminator_length == IF bel # -1 THEN 1 ELSE 2
                prefix == SubSeq(data, 3, Min(4, parameter_end))
                p      == SubSeq(data, 5, parameter_end)
                n      == parameter_end + terminator_length
            IN  IF prefix = <<Digit0, Semicolon>>
                THEN SomeSeq(n, "SetWindowAndIconTitle", p)
                ELSE IF prefix = <<Digit9, Semicolon>>
                        /\ ~HasConemuOsc9Parameter(p)
                THEN SomeSeq(n, "PostNotification", p)
                ELSE SomeSeq(n, "Other", <<>>)

\* mutant of FindLength: the sequence ends at the last byte in
\* final_bytes, not the first
FindLength_Last(data, final_bytes) ==
    LET rest == Drop(data, 2)
        hits == {i \in 1..Len(rest) : rest[i] \in final_bytes}
    IN  IF hits = {} THEN -1
        ELSE 2 + (CHOOSE i \in hits : \A h \in hits : h <= i)

\* the find_length closure: 2 + i + 1 for the first byte of data[2..] in
\* final_bytes, -1 for None
FindLength(data, final_bytes) ==
    LET i == FirstIn(Drop(data, 2), final_bytes)
    IN  IF i = -1 THEN -1 ELSE 2 + i + 1

\* EscapeSequence::parse
EscapeSequenceParse(data, allow_incomplete) ==
    IF data = <<>> \/ data[1] # ESC THEN None
    ELSE IF Len(data) < 2 THEN EmitIncomplete(data, allow_incomplete)
    ELSE IF data[2] = RBracket THEN ParseOsc(data, allow_incomplete)
    ELSE
        LET found_length ==
                IF data[2] = LBracket THEN FindLength(data, 64..126)
                ELSE IF data[2] \in 64..94 THEN 2
                ELSE FindLength(data, 48..126)
        IN  IF found_length = -1 THEN EmitIncomplete(data, allow_incomplete)
            ELSE
                LET seq == Take(data, found_length) IN
                SomeSeq(found_length,
                        IF seq = <<ESC, LBracket, Question, Digit2, Digit0,
                                   Digit2, Digit6, LowerL>>
                        THEN "EndSynchronizedUpdate"
                        ELSE IF seq = <<ESC, LBracket, Question, Digit2,
                                        Digit5, LowerH>>
                        THEN "ShowCursor"
                        ELSE "Other",
                        <<>>)

\* Fragment::new; esc is "None" for plain text
Fragment(data, esc, payload) ==
    [data |-> data, esc |-> esc, payload |-> payload]

\* mutant of FragmentParse: plain text is not cut after its line feed
FragmentParse_NoLineCut(data, allow_incomplete) ==
    IF data = <<>> THEN None
    ELSE
        LET e == FirstIn(data, {ESC})
            n == IF e = -1 THEN Len(data) ELSE e
        IN  IF n = 0
            THEN LET r == EscapeSequenceParse(data, allow_incomplete) IN
                 IF ~r.some THEN None
                 ELSE [some |-> TRUE,
                       frag |-> Fragment(Take(data, r.n), r.esc, r.payload)]
            ELSE LET nl == FirstIn(Take(data, n), {LF})
                     consumed == n
                 IN  [some |-> TRUE,
                      frag |-> Fragment(Take(data, consumed), "None", <<>>)]

\* Fragment::parse: [some |-> FALSE] or [some |-> TRUE, frag |-> Fragment]
FragmentParse(data, allow_incomplete) ==
    IF data = <<>> THEN None
    ELSE
        LET e == FirstIn(data, {ESC})
            n == IF e = -1 THEN Len(data) ELSE e
        IN  IF n = 0
            THEN LET r == EscapeSequenceParse(data, allow_incomplete) IN
                 IF ~r.some THEN None
                 ELSE [some |-> TRUE,
                       frag |-> Fragment(Take(data, r.n), r.esc, r.payload)]
            ELSE LET nl == FirstIn(Take(data, n), {LF})
                     consumed == IF nl = -1 THEN n ELSE nl + 1
                 IN  [some |-> TRUE,
                      frag |-> Fragment(Take(data, consumed), "None", <<>>)]

\* FragmentList::parse: the fragments, in order
RECURSIVE FragmentListParse(_, _)
FragmentListParse(data, allow_incomplete) ==
    IF data = <<>> THEN <<>>
    ELSE
        LET r == FragmentParse(data, allow_incomplete) IN
        IF ~r.some THEN <<>>
        ELSE <<r.frag>> \o
             FragmentListParse(Drop(data, Len(r.frag.data)), allow_incomplete)

\* FragmentList::size
RECURSIVE FragmentListSize(_)
FragmentListSize(frags) ==
    IF frags = <<>> THEN 0
    ELSE Len(Head(frags).data) + FragmentListSize(Tail(frags))

\* the bytes a consumer writes: data() of every fragment, in order
RECURSIVE FragmentsData(_)
FragmentsData(frags) ==
    IF frags = <<>> THEN <<>>
    ELSE Head(frags).data \o FragmentsData(Tail(frags))


(***************************************************************************)
(* Fragmenter: one call of FragmentList::parse on a slice.                 *)
(***************************************************************************)
\* longest slice handed to FragmentList::parse
MaxSlice == 4

\* the bytes slices and streams are drawn from: ESC, the introducers ] and
\* [, the terminators BEL and \ (which is also a two-byte escape's second
\* byte), a final byte (m), a line feed, and an intermediate byte ( that is
\* neither an introducer nor a final byte
FragAlphabet == {ESC, RBracket, LBracket, BEL, Backslash, 109, LF, 40}

VARIABLES
    fslice,   \* the slice to parse
    fallow,   \* allow_incomplete
    fres      \* the call's result, once it has returned

fragVars == <<fslice, fallow, fres>>

FragInit ==
    /\ fslice \in SeqsOf(FragAlphabet, 0, MaxSlice)
    /\ fallow \in BOOLEAN
    /\ fres = [returned |-> FALSE]

FragIdle ==
    /\ fslice = <<>>
    /\ fallow = FALSE
    /\ fres = [returned |-> FALSE]

\* FragmentList::parse(fslice, fallow), and size() of what it returns
FragParse ==
    /\ ~fres.returned
    /\ LET frags == FragmentListParse(fslice, fallow) IN
       fres' = [returned |-> TRUE, frags |-> frags,
                size |-> FragmentListSize(frags)]
    /\ UNCHANGED <<fslice, fallow>>

(***************************************************************************)
(* Byte buffer (src/tty_text/buffer.rs) with the fragments passed on as    *)
(* tokenized (LineWrapMode::Preserve, src/tty_text/reformat.rs).           *)
(***************************************************************************)
\* N of Buffer<N>
BufN == 3
\* longest stream the source delivers before it ends
MaxStream == 4

\* the bytes streams are drawn from: ESC, the introducers ] and [, the
\* terminator BEL, a line feed and a letter (m), which is plain text and a
\* final byte
BufAlphabet == {ESC, RBracket, LBracket, BEL, LF, 109}

VARIABLES
    stream,    \* every byte the source delivers before it ends
    srcPos,    \* how many of them extend_from_read has read
    bdata,     \* Buffer.data
    start,     \* Buffer.start
    end,       \* Buffer.end
    emitted,   \* data() of every fragment handed out so far, concatenated
    blast      \* the last call on the buffer and what it saw

bufVars == <<stream, srcPos, bdata, start, end, emitted, blast>>

\* Buffer::new, and a source that has delivered nothing yet
BufInit ==
    /\ stream \in SeqsOf(BufAlphabet, 0, MaxStream)
    /\ srcPos = 0
    /\ bdata = [i \in 1..BufN |-> 0]
    /\ start = 0
    /\ end = 0
    /\ emitted = <<>>
    /\ blast = [op |-> "new"]

BufIdle ==
    /\ stream = <<>>
    /\ srcPos = 0
    /\ bdata = <<>>
    /\ start = 0
    /\ end = 0
    /\ emitted = <<>>
    /\ blast = [op |-> "none"]

\* mutant of BufIsFull: the comparison with the capacity is off by one
BufIsFull_OffByOne(s, e) == s = 0 /\ e = BufN + 1

\* Buffer::is_full
BufIsFull(s, e) == s = 0 /\ e = BufN

\* &self.data[self.start..self.end]
BufSlice(d, s, e) == SubSeq(d, s + 1, e)

\* mutant of CopyWithin: the bytes are not moved
CopyWithin_NotMoved(d, s, e) == d

\* self.data.copy_within(self.start..self.end, 0)
CopyWithin(d, s, e) ==
    [i \in 1..Len(d) |-> IF i <= e - s THEN d[s + i] ELSE d[i]]

\* LineWrapMode::Preserve of Reformatter::reformat: (consumed, fragments)
ReformatPreserve(frags) ==
    [consumed |-> FragmentListSize(frags), fragments |-> frags]

\* Buffer::parse without line-wrap adjustment; the caller writes data() of
\* every fragment it gets
BufParse ==
    /\ blast.op # "none"
    /\ LET full  == BufIsFull(start, end)
           slice == BufSlice(bdata, start, end)
           r     == ReformatPreserve(FragmentListParse(slice, full))
       IN  /\ start' = start + r.consumed
           /\ emitted' = emitted \o FragmentsData(r.fragments)
           /\ blast' = [op |-> "parse", full |-> full, slice |-> slice,
                        consumed |-> r.consumed, fragments |-> r.fragments]
    /\ UNCHANGED <<stream, srcPos, bdata, end>>

\* Buffer::extend_from_read: compaction, then one read into data[end..],
\* which returns between 1 and data[end..].len() of the bytes the source
\* still has, and 0 when the source has ended or data[end..] is empty
BufExtendFromRead ==
    /\ blast.op # "none"
    /\ LET compact == 0 < start /\ BufN <= 2 * end
           d1 == IF compact THEN CopyWithin(bdata, start, end) ELSE bdata
           e1 == IF compact THEN end - start ELSE end
           s1 == IF compact THEN 0 ELSE start
           room == Min(Len(stream) - srcPos, BufN - e1)
       IN  \E n \in IF room = 0 THEN {0} ELSE 1..room :
               /\ bdata' = [i \in 1..BufN |->
                               IF e1 < i /\ i <= e1 + n
                               THEN stream[srcPos + (i - e1)] ELSE d1[i]]
               /\ end' = e1 + n
               /\ start' = s1
               /\ srcPos' = srcPos + n
               /\ blast' = [op |-> "read"]
    /\ UNCHANGED <<stream, emitted>>

(***************************************************************************)
(* Line-wrap reconstruction (src/tty_text/reformat/line_wrapping.rs).      *)
(***************************************************************************)
CR == 13
Space == 32
Plus == 43
Dash == 45
Dot == 46
Slash == 47
Colon == 58
UpperB == 66
UpperC == 67

\* MAX_CONTINUATION_INDENT
MAX_CONTINUATION_INDENT == 2
\* WRAP_EDGE_SLACK
WRAP_EDGE_SLACK == 4

\* u8::is_ascii_graphic
IsAsciiGraphic(b) == b \in 33..126

\* u8::is_ascii_alphabetic
IsAsciiAlphabetic(b) == b \in 65..90 \/ b \in 97..122

\* the bytes is_scheme_char accepts
SchemeChars == (65..90) \cup (97..122) \cup (48..57) \cup {Plus, Dash, Dot}

\* is_scheme_char
IsSchemeChar(b) == b \in SchemeChars

\* mutant of IsAsciiGraphicRun: spaces are let through
IsAsciiGraphicRun_SpacesToo(data) ==
    \A i \in 1..Len(data) : IsAsciiGraphic(data[i]) \/ data[i] = Space

\* is_ascii_graphic_run
IsAsciiGraphicRun(data) == \A i \in 1..Len(data) : IsAsciiGraphic(data[i])

\* line_width: the display width of the line; every byte the model draws is
\* printable ASCII or a control byte, and each counts one column
LineWidth(line) == Len(line)

\* usize::saturating_sub
SaturatingSub(a, b) == IF a >= b THEN a - b ELSE 0

\* slice::ends_with
EndsWith(s, p) ==
    Len(p) <= Len(s) /\ SubSeq(s, Len(s) - Len(p) + 1, Len(s)) = p

\* iter().take_while(pred).count() for the predicate "is in S"
CountWhileIn(s, S) ==
    LET stop == {i \in 1..Len(s) : s[i] \notin S}
    IN  IF stop = {} THEN Len(s)
        ELSE (CHOOSE i \in stop : \A h \in stop : i <= h) - 1

\* iter().rev().take_while(is_scheme_char).count()
CountSchemeCharsAtEnd(s) ==
    LET stop == {i \in 1..Len(s) : ~IsSchemeChar(s[i])}
    IN  IF stop = {} THEN Len(s)
        ELSE Len(s) - (CHOOSE i \in stop : \A h \in stop : h <= i)

\* windows(3).position(|w| w == b"://"): zero-based, -1 for None
FirstMarker(s) ==
    LET hits == {i \in 1..(Len(s) - 2) :
                    SubSeq(s, i, i + 2) = <<Colon, Slash, Slash>>}
    IN  IF hits = {} THEN -1
        ELSE (CHOOSE i \in hits : \A h \in hits : i <= h) - 1

\* windows(3).rposition(|w| w == b"://"): zero-based, -1 for None
LastMarker(s) ==
    LET hits == {i \in 1..(Len(s) - 2) :
                    SubSeq(s, i, i + 2) = <<Colon, Slash, Slash>>}
    IN  IF hits = {} THEN -1
        ELSE (CHOOSE i \in hits : \A h \in hits : h <= i) - 1

\* str::parse::<usize> on ASCII digits: the value of a run of digits
RECURSIVE DecValue(_)
DecValue(s) ==
    IF s = <<>> THEN 0
    ELSE DecValue(SubSeq(s, 1, Len(s) - 1)) * 10 + (s[Len(s)] - 48)

\* Fragment::is_plain_text
IsPlainText(f) == f.esc = "None"

\* the test Fragment::is_cud and Fragment::is_cuf share: ESC [ digits final
IsCsiDigitsFinal(data, final) ==
    /\ Len(data) >= 3
    /\ StartsWith(data, <<ESC, LBracket>>)
    /\ \A i \in 3..(Len(data) - 1) : IsAsciiDigit(data[i])
    /\ data[Len(data)] = final

\* Fragment::is_cud
IsCud(f) == IsCsiDigitsFinal(f.data, UpperB)

\* Fragment::is_cuf
IsCuf(f) == IsCsiDigitsFinal(f.data, UpperC)

\* Fragment::chomp: one trailing LF, then every trailing CR
RECURSIVE StripTrailing(_, _)
StripTrailing(s, b) ==
    IF s # <<>> /\ s[Len(s)] = b
    THEN StripTrailing(SubSeq(s, 1, Len(s) - 1), b) ELSE s

Chomp(f) ==
    LET d  == f.data
        d1 == IF d # <<>> /\ d[Len(d)] = LF
              THEN SubSeq(d, 1, Len(d) - 1) ELSE d
    IN  [f EXCEPT !.data = StripTrailing(d1, CR)]

\* mutant of Ltrim: the first byte goes, whatever it is
Ltrim_FirstByte(f) == [f EXCEPT !.data = Drop(@, 1)]

\* Fragment::ltrim
Ltrim(f) == [f EXCEPT !.data = Drop(@, CountWhileIn(@, {Space}))]

\* cursor_forward_columns: the columns of a CUF, -1 for None
CursorForwardColumns(data) ==
    IF ~(StartsWith(data, <<ESC, LBracket>>) /\ Len(data) >= 3
         /\ data[Len(data)] = UpperC)
    THEN -1
    ELSE
        LET p      == SubSeq(data, 3, Len(data) - 1)
            digits == IF p # <<>> /\ p[1] = Plus THEN Tail(p) ELSE p
        IN  IF p = <<>> THEN 1
            ELSE IF digits = <<>>
                    \/ \E i \in 1..Len(digits) : ~IsAsciiDigit(digits[i])
            THEN -1
            ELSE IF DecValue(digits) = 0 THEN 1 ELSE DecValue(digits)

\* visual_line_break_length: the number of fragments of a visual line break
\* (\r CUF? CUD) the fragments start with, -1 for None
VisualLineBreakLength(frags) ==
    IF frags = <<>> \/ ~EndsWith(frags[1].data, <<CR>>) THEN -1
    ELSE
        LET i == IF Len(frags) >= 2 /\ IsCuf(frags[2]) THEN 2 ELSE 1
        IN  IF Len(frags) >= i + 1 /\ IsCud(frags[i + 1]) THEN i + 1 ELSE -1

\* should_attempt_url_unwrap
ShouldAttemptUrlUnwrap(line, terminal_width) ==
    LET m == LastMarker(line)
        i == m + 3
    IN  /\ m # -1
        /\ IsAsciiGraphicRun(Drop(line, i))
        /\ SaturatingSub(terminal_width, WRAP_EDGE_SLACK)
               <= LineWidth(Take(line, i)) + Len(Drop(line, i))

\* continuation_indent: the indent, -1 for None
ContinuationIndent(line) ==
    LET n == CountWhileIn(line, {Space})
    IN  IF n \in 1..MAX_CONTINUATION_INDENT /\ n < Len(line) THEN n ELSE -1

\* starts_with_url_scheme
StartsWithUrlScheme(line) ==
    LET i == CountWhileIn(line, SchemeChars)
    IN  /\ i < Len(line)
        /\ IsAsciiAlphabetic(line[1])
        /\ StartsWith(Drop(line, i), <<Colon, Slash, Slash>>)

\* mutant of UrlContinuationIndent: list markers are not looked for
UrlContinuationIndent_NoListCheck(line) ==
    LET margin == ContinuationIndent(line)
    IN  IF margin = -1 THEN -1
        ELSE IF StartsWithUrlScheme(Drop(line, margin)) THEN -1
        ELSE IF IsAsciiGraphic(line[margin + 1]) THEN margin ELSE -1

\* url_continuation_indent: the margin, -1 for None
UrlContinuationIndent(line) ==
    LET margin == ContinuationIndent(line)
    IN  IF margin = -1 THEN -1
        ELSE
            LET rest == Drop(line, margin)
                i    == CountWhileIn(rest, 48..57)
                idx  == margin + i
                ordered ==
                    /\ i < Len(rest)
                    /\ i > 0
                    /\ line[idx + 1] = Dot
                    /\ (Len(line) < idx + 2 \/ line[idx + 2] = Space)
                unordered ==
                    /\ line[margin + 1] = Dash
                    /\ (Len(line) < margin + 2 \/ line[margin + 2] = Space)
            IN  IF ordered \/ unordered \/ StartsWithUrlScheme(rest) THEN -1
                ELSE IF IsAsciiGraphic(line[margin + 1]) THEN margin ELSE -1

\* can_have_another_url_continuation
CanHaveAnotherUrlContinuation(line, terminal_width) ==
    LET margin == ContinuationIndent(line)
    IN  /\ margin # -1
        /\ SaturatingSub(terminal_width, WRAP_EDGE_SLACK) <= Len(line)
        /\ IsAsciiGraphicRun(Drop(line, margin))

\* mutant of HasSplitUrlScheme: the split between scheme: and // is not
\* looked for
HasSplitUrlScheme_NoColonBoundary(prev_line, current_line) ==
    LET margin == ContinuationIndent(current_line)
    IN  /\ margin # -1
        /\ LET after_margin == Drop(current_line, margin)
               colon_pos    == FirstMarker(after_margin)
               prefix_len   == CountSchemeCharsAtEnd(prev_line)
           IN  /\ colon_pos # -1
               /\ \A k \in 1..colon_pos : IsSchemeChar(after_margin[k])
               /\ prefix_len > 0
               /\ IsAsciiAlphabetic(
                      prev_line[Len(prev_line) - prefix_len + 1])

\* has_split_url_scheme
HasSplitUrlScheme(prev_line, current_line) ==
    LET margin == ContinuationIndent(current_line)
    IN  /\ margin # -1
        /\ LET after_margin == Drop(current_line, margin)
               colon_pos    == FirstMarker(after_margin)
               prefix_len   == CountSchemeCharsAtEnd(prev_line)
               before_colon == SubSeq(prev_line, 1, Len(prev_line) - 1)
               scheme_len   == CountSchemeCharsAtEnd(before_colon)
           IN  \/ /\ colon_pos # -1
                  /\ \A k \in 1..colon_pos : IsSchemeChar(after_margin[k])
                  /\ prefix_len > 0
                  /\ IsAsciiAlphabetic(
                         prev_line[Len(prev_line) - prefix_len + 1])
               \/ /\ StartsWith(after_margin, <<Slash, Slash>>)
                  /\ prev_line # <<>>
                  /\ prev_line[Len(prev_line)] = Colon
                  /\ scheme_len > 0
                  /\ IsAsciiAlphabetic(
                         before_colon[Len(before_colon) - scheme_len + 1])

\* mutant of EndOffsets: every fragment is counted one byte too long
RECURSIVE EndOffsets_OneTooMany(_, _)
EndOffsets_OneTooMany(frags, acc) ==
    IF frags = <<>> THEN <<>>
    ELSE <<acc + Len(Head(frags).data) + 1>>
         \o EndOffsets_OneTooMany(Tail(frags), acc + Len(Head(frags).data) + 1)

\* FragmentCursor::new: fragments, their end offsets in the parsed slice,
\* position and line_start
RECURSIVE EndOffsets(_, _)
EndOffsets(frags, acc) ==
    IF frags = <<>> THEN <<>>
    ELSE <<acc + Len(Head(frags).data)>>
         \o EndOffsets(Tail(frags), acc + Len(Head(frags).data))

CursorNew(frags) ==
    [frags |-> frags, offs |-> EndOffsets(frags, 0),
     position |-> 0, line_start |-> 0]

\* s without its element at (one-based) index i
RemoveIndex(s, i) == SubSeq(s, 1, i - 1) \o SubSeq(s, i + 1, Len(s))

\* mutant of RemoveAt: the end offsets lose their last entry, not the
\* removed fragment's
RemoveAt_LastOffset(c, index) ==
    [c EXCEPT !.frags = RemoveIndex(@, index + 1),
              !.offs = SubSeq(@, 1, Len(@) - 1),
              !.position = @ - 1]

\* FragmentCursor::remove_at(index), index zero-based
RemoveAt(c, index) ==
    [c EXCEPT !.frags = RemoveIndex(@, index + 1),
              !.offs = RemoveIndex(@, index + 1),
              !.position = @ - 1]

\* FragmentCursor::remove_at(index) called n times
RECURSIVE RemoveAtTimes(_, _, _)
RemoveAtTimes(c, index, n) ==
    IF n <= 0 THEN c ELSE RemoveAtTimes(RemoveAt(c, index), index, n - 1)

\* FragmentCursor::remove_while(index, |f| f.is_cuf())
RECURSIVE RemoveWhileCuf(_, _)
RemoveWhileCuf(c, index) ==
    IF index + 1 <= Len(c.frags) /\ IsCuf(c.frags[index + 1])
    THEN RemoveWhileCuf(RemoveAt(c, index), index) ELSE c

\* the fragment at (one-based) index j ends a line for extract_line
EndsLine(frags, j) ==
    IF IsPlainText(frags[j])
    THEN \/ \E k \in 1..Len(frags[j].data) : frags[j].data[k] = LF
         \/ VisualLineBreakLength(SubSeq(frags, j, Len(frags))) # -1
    ELSE frags[j].esc \in {"EndSynchronizedUpdate", "ShowCursor",
                           "SetWindowAndIconTitle", "PostNotification"}

\* the text extract_line flattens fragments into: plain text as it is, a
\* cursor-forward as spaces, nothing for any other escape sequence
RECURSIVE FlattenLine(_, _)
FlattenLine(frags, terminal_width) ==
    IF frags = <<>> THEN <<>>
    ELSE
        LET f == Head(frags)
            n == CursorForwardColumns(f.data)
        IN  (IF IsPlainText(f) THEN f.data
             ELSE IF n # -1
             THEN [k \in 1..Min(n, terminal_width) |-> Space]
             ELSE <<>>)
            \o FlattenLine(Tail(frags), terminal_width)

\* FragmentCursor::extract_line: [some |-> FALSE] for None, else the cursor
\* after the call and the line
ExtractLine(c, terminal_width) ==
    LET ends == {j \in (c.position + 1)..Len(c.frags) : EndsLine(c.frags, j)}
    IN  IF ends = {} THEN [some |-> FALSE]
        ELSE
            LET i    == CHOOSE j \in ends : \A h \in ends : j <= h
                flat == FlattenLine(SubSeq(c.frags, c.position + 1, i),
                                    terminal_width)
                nolf == IF flat # <<>> /\ flat[Len(flat)] = LF
                        THEN SubSeq(flat, 1, Len(flat) - 1) ELSE flat
            IN  [some |-> TRUE,
                 c |-> [c EXCEPT !.line_start = c.position, !.position = i],
                 line |-> StripTrailing(nolf, CR)]

\* the (zero-based) index of the first plain-text fragment in
\* i..position, -1 if there is none
FirstPlainFrom(c, i) ==
    LET hits == {j \in i..(c.position - 1) : IsPlainText(c.frags[j + 1])}
    IN  IF hits = {} THEN -1 ELSE CHOOSE j \in hits : \A h \in hits : j <= h

\* the element of a one-element set
One(S) == CHOOSE x \in S : TRUE

\* FragmentCursor::join
Join(c) ==
    LET vbl == VisualLineBreakLength(
                   SubSeq(c.frags, c.line_start, Len(c.frags)))
        c1  == [c EXCEPT !.frags[c.line_start] = Chomp(@)]
        c2  == RemoveAtTimes(c1, c.line_start,
                             IF vbl = -1 THEN 0 ELSE vbl - 1)
    IN  One({IF FirstPlainFrom(c3, c.line_start) = -1 THEN c3
             ELSE [c3 EXCEPT
                      !.frags[FirstPlainFrom(c3, c.line_start) + 1] = Ltrim(@)] :
             c3 \in {RemoveWhileCuf(c2, c.line_start)}})

\* FragmentCursor::truncate: (consumed, fragments)
Truncate(c) ==
    [consumed |-> IF c.position = 0 THEN 0 ELSE c.offs[c.position],
     fragments |-> SubSeq(c.frags, 1, c.position)]

\* the end of adjust_line_wrapping: with allow_incomplete, a cursor still at
\* 0 over more than one fragment is moved to 1
ForceRelease(c, allow_incomplete) ==
    IF allow_incomplete /\ c.position = 0 /\ Len(c.frags) > 1
    THEN [c EXCEPT !.position = 1] ELSE c

\* mutant of Pending: the cursor stays where the group was read to
Pending_NotRewound(c, adjusted) == c

\* cursor.set_position(adjusted) before break 'outer: a group that may
\* still grow is left unconsumed
Pending(c, adjusted) == [c EXCEPT !.position = adjusted]

\* the loops of adjust_line_wrapping: AdjustInner is the loop over
\* continuation lines from its first pass on, with stop for break 'outer and
\* the cursor it leaves; prev is None or [some |-> TRUE, adjusted, line]
RECURSIVE AdjustInner(_, _, _, _)
AdjustInner(c, adjusted, previous_line_width, terminal_width) ==
    One({
        IF ~e.some THEN [stop |-> TRUE, c |-> Pending(c, adjusted)]
        ELSE
            LET margin  == UrlContinuationIndent(e.line)
                rewound == [e.c EXCEPT !.position = e.c.line_start]
            IN  IF margin = -1 THEN [stop |-> FALSE, c |-> rewound]
                ELSE IF /\ ~IsAsciiGraphicRun(Drop(e.line, margin))
                        /\ terminal_width > previous_line_width
                THEN [stop |-> FALSE, c |-> rewound]
                ELSE One({
                    IF ~CanHaveAnotherUrlContinuation(e.line, terminal_width)
                    THEN [stop |-> FALSE,
                          c |-> [joined EXCEPT !.position = joined.line_start]]
                    ELSE AdjustInner(joined, adjusted, LineWidth(e.line),
                                     terminal_width) :
                    joined \in {Join(e.c)}}) :
        e \in {ExtractLine(c, terminal_width)}})

\* one pass of the loop 'outer: stop says that the loop is left (break or
\* break 'outer), c and prev are the cursor and prev after the pass
OuterPass(c, prev, terminal_width) ==
    One({
        IF ~e.some THEN [stop |-> TRUE, c |-> c, prev |-> None]
        ELSE
            LET split == prev.some /\ HasSplitUrlScheme(prev.line, e.line)
                adjusted == IF split THEN prev.adjusted ELSE c.position
            IN  One({
                    IF ~ShouldAttemptUrlUnwrap(e2.line, terminal_width)
                    THEN [stop |-> FALSE, c |-> e2.c,
                          prev |-> IF LineWidth(e2.line) = terminal_width
                                   THEN [some |-> TRUE, adjusted |-> adjusted,
                                         line |-> e2.line]
                                   ELSE None]
                    ELSE One({[stop |-> r.stop, c |-> r.c, prev |-> None] :
                              r \in {AdjustInner(e2.c, adjusted,
                                                 LineWidth(e2.line),
                                                 terminal_width)}}) :
                    e2 \in IF split
                           THEN {ExtractLine(j, terminal_width) :
                                    j \in {[Join(e.c) EXCEPT
                                               !.position = prev.adjusted]}}
                           ELSE {e}}) :
        e \in {ExtractLine(c, terminal_width)}})

\* the loop 'outer: the cursor when it is left
RECURSIVE AdjustOuter(_, _, _)
AdjustOuter(c, prev, terminal_width) ==
    One({IF r.stop THEN r.c ELSE AdjustOuter(r.c, r.prev, terminal_width) :
         r \in {OuterPass(c, prev, terminal_width)}})

\* adjust_line_wrapping: (consumed, the fragments left in the vector)
AdjustLineWrapping(frags, allow_incomplete, terminal_width) ==
    One({Truncate(ForceRelease(left, allow_incomplete)) :
         left \in {One({AdjustOuter(c, None, terminal_width) :
                        c \in {CursorNew(frags)}})}})

\* LineWrapMode::Adjust of Reformatter::reformat
ReformatAdjust(frags, is_full, terminal_width) ==
    AdjustLineWrapping(frags, is_full, terminal_width)

(***************************************************************************)
(* One call of adjust_line_wrapping on the fragments of a slice, as the    *)
(* tests of line_wrapping.rs and Reformatter::reformat make it.            *)
(***************************************************************************)
\* the terminal widths a call is made with
LwWidths == {5, 10}

\* cursor down (ESC [ B) and cursor forward by one column (ESC [ C)
LwCud == <<ESC, LBracket, UpperB>>
LwCuf == <<ESC, LBracket, UpperC>>

\* line breaks: LF, CR LF, and the visual break CR CUD
LwBreaks == {<<LF>>, <<CR, LF>>, <<CR>> \o LwCud}

\* an optional complete line ahead of the lines under test
LwPrefixes == {<<>>, <<98, LF>>}

\* first lines: a://b (as wide as the narrower terminal), ba://b, "a:// b",
\* b, and two lines as wide as the narrower terminal that end inside a URL
\* scheme (bbbba, bbba:)
LwFirstBodies ==
    {<<97, Colon, Slash, Slash, 98>>,
     <<98, 97, Colon, Slash, Slash, 98>>,
     <<97, Colon, Slash, Slash, Space, 98>>,
     <<98>>,
     <<98, 98, 98, 98, 97>>,
     <<98, 98, 98, 97, Colon>>}

\* indents of a second line: none, one or two spaces, a cursor-forward
LwIndents == {<<>>, <<Space>>, <<Space, Space>>, LwCuf}

\* second lines: b, bbbb, the list items "-", "- b", "1.", "1. b" and
\* "- a://b", text with a space (b b), a new URL (c://b) and the rest of a
\* split scheme (//b)
LwSecondBodies ==
    {<<98>>,
     <<98, 98, 98, 98>>,
     <<Dash>>,
     <<Dash, Space, 98>>,
     <<49, Dot>>,
     <<49, Dot, Space, 98>>,
     <<Dash, Space, 97, Colon, Slash, Slash, 98>>,
     <<98, Space, 98>>,
     <<99, Colon, Slash, Slash, 98>>,
     <<Slash, Slash, 98>>}

\* what follows the second line: nothing, an empty line, a short line, a
\* wide continuation, an unfinished wide continuation
LwTails ==
    {<<>>, <<LF>>, <<98, LF>>, <<Space, 98, 98, 98, 98, LF>>,
     <<Space, 98, 98, 98, 98>>}

\* the parts a slice is made of
LwShape(p, f, t, i, b, u, z) ==
    [prefix |-> p, first |-> f, brk |-> t, indent |-> i, second |-> b,
     brk2 |-> u, tail |-> z]

\* slices whose first line has a break: with no second line, or with a
\* second line that has a break or not
LwBrokenShapes ==
    {LwShape(p, f, t, <<>>, <<>>, <<>>, z) :
        p \in LwPrefixes, f \in LwFirstBodies, t \in LwBreaks, z \in LwTails}
    \cup
    {LwShape(x[1], x[2], x[3], x[4], x[5], x[6], x[7]) :
        x \in LwPrefixes \X LwFirstBodies \X LwBreaks \X LwIndents
                \X LwSecondBodies \X (LwBreaks \cup {<<>>}) \X LwTails}

\* slices whose last line has no break: a first line alone, or followed by
\* the beginning of an escape sequence
LwUnbrokenShapes ==
    {LwShape(p, f, <<>>, <<>>, <<>>, <<>>, e) :
        p \in LwPrefixes, f \in LwFirstBodies,
        e \in {<<>>, <<ESC>>, <<ESC, LBracket>>}}

\* the slices a call is made on, by their parts
LwShapes == LwBrokenShapes \cup LwUnbrokenShapes

\* the bytes of a slice
ShapeData(s) ==
    s.prefix \o s.first \o s.brk \o s.indent \o s.second \o s.brk2 \o s.tail

VARIABLES
    lshape,   \* the parts of the slice
    ldata,    \* the slice
    lallow,   \* allow_incomplete, for FragmentList::parse and the adjustment
    lwidth,   \* terminal_width
    lres      \* the call's result, once it has returned

lwVars == <<lshape, ldata, lallow, lwidth, lres>>

LwInit ==
    /\ lshape \in LwShapes
    /\ ldata = ShapeData(lshape)
    /\ lallow \in BOOLEAN
    /\ lwidth \in LwWidths
    /\ lres = [returned |-> FALSE]

LwIdle ==
    /\ lshape = LwShape(<<>>, <<>>, <<>>, <<>>, <<>>, <<>>, <<>>)
    /\ ldata = <<>>
    /\ lallow = FALSE
    /\ lwidth = 0
    /\ lres = [returned |-> FALSE]

\* FragmentList::parse(ldata, lallow) and adjust_line_wrapping on its
\* fragments; the caller writes data() of every fragment left
LwAdjust ==
    /\ ~lres.returned
    /\ \E parsed \in {FragmentListParse(ldata, lallow)} :
       \E r \in {AdjustLineWrapping(parsed, lallow, lwidth)} :
           lres' = [returned |-> TRUE, parsed |-> parsed,
                    consumed |-> r.consumed, fragments |-> r.fragments,
                    out |-> FragmentsData(r.fragments)]
    /\ UNCHANGED <<lshape, ldata, lallow, lwidth>>

(***************************************************************************)
(* Byte buffer with a Reformatter in either line-wrap mode                 *)
(* (src/tty_text/buffer.rs, src/tty_text/reformat.rs).                     *)
(***************************************************************************)
\* N of Buffer<N> where lines are reconstructed
RfN == 8

\* the terminal widths that are set; the line :// reaches within
\* WRAP_EDGE_SLACK of both
RfWidths == {6, 7}

\* first lines of a stream: :// and b
RfFirstLines == {<<Colon, Slash, Slash>>, <<98>>}

\* line breaks of a stream: LF and the visual break CR CUD
RfBreaks == {<<LF>>, <<CR>> \o LwCud}

\* second lines of a stream: none, a continuation ( b, or bb) with or
\* without its LF, a list item ( -) and an unindented line (b)
RfSecondLines ==
    {<<>>, <<Space, 98, LF>>, <<Space, 98, 98, LF>>, <<Space, 98>>,
     <<Space, Dash, LF>>, <<98, LF>>}

\* what ends a stream: nothing, an empty line, an ESC
RfTails == {<<>>, <<LF>>, <<ESC>>}

\* the streams the source delivers
RfStreams ==
    {f \o t \o s \o z :
        f \in RfFirstLines, t \in RfBreaks, s \in RfSecondLines,
        z \in RfTails}

VARIABLES
    mode,     \* Reformatter.mode
    twidth    \* Reformatter.terminal_width

rfVars == <<mode, twidth>>

\* Buffer::new and Reformatter::new
RfInit ==
    /\ stream \in RfStreams
    /\ srcPos = 0
    /\ bdata = [i \in 1..RfN |-> 0]
    /\ start = 0
    /\ end = 0
    /\ emitted = <<>>
    /\ blast = [op |-> "new"]
    /\ mode \in {"Preserve", "Adjust"}
    /\ twidth \in RfWidths

RfIdle ==
    /\ mode = "none"
    /\ twidth = 0

\* Reformatter::reformat: (consumed, fragments)
Reformat(frags, is_full) ==
    IF mode = "Adjust" THEN ReformatAdjust(frags, is_full, twidth)
    ELSE ReformatPreserve(frags)

\* mutant of RfIsFull: the buffer counts as full whatever it holds
RfIsFull_Always(s, e) == TRUE

\* Buffer::is_full for the capacity RfN
RfIsFull(s, e) == s = 0 /\ e = RfN

\* Buffer::parse with the reformatter; the caller writes data() of every
\* fragment it gets
RfParse ==
    /\ \E full \in {RfIsFull(start, end)} :
       \E slice \in {BufSlice(bdata, start, end)} :
       \E parsed \in {FragmentListParse(slice, full)} :
       \E r \in {Reformat(parsed, full)} :
           /\ start' = start + r.consumed
           /\ emitted' = emitted \o FragmentsData(r.fragments)
           /\ blast' = [op |-> "parse", full |-> full, slice |-> slice,
                        consumed |-> r.consumed, fragments |-> r.fragments]
    /\ UNCHANGED <<stream, srcPos, bdata, end, mode, twidth>>

\* Buffer::extend_from_read for the capacity RfN
RfExtendFromRead ==
    /\ LET compact == 0 < start /\ RfN <= 2 * end
           d1 == IF compact THEN CopyWithin(bdata, start, end) ELSE bdata
           e1 == IF compact THEN end - start ELSE end
           s1 == IF compact THEN 0 ELSE start
           room == Min(Len(stream) - srcPos, RfN - e1)
       IN  \E n \in IF room = 0 THEN {0} ELSE 1..room :
               /\ bdata' = [i \in 1..RfN |->
                               IF e1 < i /\ i <= e1 + n
                               THEN stream[srcPos + (i - e1)] ELSE d1[i]]
               /\ end' = e1 + n
               /\ start' = s1
               /\ srcPos' = srcPos + n
               /\ blast' = [op |-> "read", compacted |-> compact, n |-> n,
                            was |-> [start |-> start, end |-> end,
                                     region |-> BufSlice(bdata, start, end),
                                     after_parse |-> blast.op = "parse"]]
    /\ UNCHANGED <<stream, emitted, mode, twidth>>

\* Reformatter::set_terminal_width
RfSetTerminalWidth ==
    /\ \E w \in RfWidths \ {twidth} : twidth' = w
    /\ UNCHANGED <<bufVars, mode>>

(***************************************************************************)
(* A stream of plain text and one escape sequence, delivered in any reads. *)
(***************************************************************************)
\* the escape sequences: OSC (a title with BEL and with ST, a notification,
\* one without parameter), CSI (SGR, ShowCursor, EndSynchronizedUpdate),
\* ESC M and ESC ( B
DvSequences ==
    {<<ESC, RBracket, Digit0, Semicolon, 116, BEL>>,
     <<ESC, RBracket, Digit0, Semicolon, 116, ESC, Backslash>>,
     <<ESC, RBracket, Digit9, Semicolon, 120, BEL>>,
     <<ESC, RBracket, BEL>>,
     <<ESC, LBracket, 109>>,
     <<ESC, LBracket, Question, Digit2, Digit5, LowerH>>,
     <<ESC, LBracket, Question, Digit2, Digit0, Digit2, Digit6, LowerL>>,
     <<ESC, 77>>,
     <<ESC, 40, UpperB>>}

\* the plain text before the sequence
DvTexts == {<<>>, <<109>>, <<109, LF>>, <<LF, 109>>}

\* the streams: text and sequence together fit into the buffer
DvStreams ==
    {x[1] \o x[2] :
        x \in {y \in DvTexts \X DvSequences : Len(y[1]) + Len(y[2]) <= RfN}}

\* Buffer::new and Reformatter::new(_, LineWrapMode::Preserve)
DvInit ==
    /\ stream \in DvStreams
    /\ srcPos = 0
    /\ bdata = [i \in 1..RfN |-> 0]
    /\ start = 0
    /\ end = 0
    /\ emitted = <<>>
    /\ blast = [op |-> "new"]
    /\ mode = "Preserve"
    /\ twidth \in RfWidths

(***************************************************************************)
(* Fragmenter on whole OSC and CSI sequences.                              *)
(***************************************************************************)
\* longest payload variation of an OSC
MaxPayload == 3
\* longest parameter variation of a CSI
MaxCsiParams == 4

\* OSC parameter prefixes: 0; 9; 4; and the prefixes 9 and nothing, which
\* have no semicolon
OscPrefixes ==
    {<<Digit0, Semicolon>>, <<Digit9, Semicolon>>, <<52, Semicolon>>,
     <<Digit9>>, <<>>}

\* OSC payloads: every string of 5, x and ; up to MaxPayload bytes, and the
\* ConEmu codes 10, 12 and 4;1;50
OscPayloads ==
    SeqsOf({Digit5, 120, Semicolon}, 0, MaxPayload)
    \cup {<<49, Digit0>>, <<49, Digit2>>,
          <<52, Semicolon, 49, Semicolon, Digit5, Digit0>>}

\* the two OSC terminators: BEL and ST (ESC \)
OscTerminators == {<<BEL>>, <<ESC, Backslash>>}

\* terminated OSC sequences
OscSlices ==
    {<<ESC, RBracket>> \o x \o p \o t :
        x \in OscPrefixes, p \in OscPayloads, t \in OscTerminators}

\* CSI sequences: ESC [ and every string of ? 2 5 h l up to MaxCsiParams
\* bytes, ESC [ ? 2 0 2 6 l and ESC [ ? 2 0 2 6 h, each alone or followed
\* by the letter m
CsiSlices ==
    {<<ESC, LBracket>> \o p \o z :
        p \in SeqsOf({Question, Digit2, Digit5, LowerH, LowerL}, 0,
                     MaxCsiParams)
              \cup {<<Question, Digit2, Digit0, Digit2, Digit6, LowerL>>,
                    <<Question, Digit2, Digit0, Digit2, Digit6, LowerH>>},
        z \in {<<>>, <<109>>}}

\* FragmentList::parse is called on an OSC or a CSI sequence
\* what follows a terminated OSC in the slice: nothing, a BEL, text and a
\* BEL, an ST, text alone
OscFollowers ==
    {<<>>, <<BEL>>, <<120, BEL>>, <<ESC, Backslash>>, <<120>>}

\* terminated OSC sequences and what follows them
OscFollowedSlices == {s \o f : s \in OscSlices, f \in OscFollowers}

OscInit ==
    /\ fslice \in OscFollowedSlices
    /\ fallow \in BOOLEAN
    /\ fres = [returned |-> FALSE]

SeqInit ==
    /\ fslice \in OscSlices \cup CsiSlices
    /\ fallow \in BOOLEAN
    /\ fres = [returned |-> FALSE]

(***************************************************************************)
(* Rewrite rules from the command line (src/input_rewrite/escape.rs,       *)
(* src/input_rewrite/rule.rs, src/args.rs).  A rule text is a sequence of  *)
(* ASCII characters.                                                       *)
(***************************************************************************)
TAB == 9
LowerE == 101
LowerN == 110
LowerR == 114
LowerT == 116
LowerX == 120

\* a result that is an error
Err(e) == [ok |-> FALSE, error |-> e]

\* mutant of HexDigitValue: no upper-case digits
HexDigitValue_LowerOnly(ch) ==
    IF ch \in 48..57 THEN ch - 48
    ELSE IF ch \in 97..102 THEN ch - 87
    ELSE -1

\* the value of a hexadecimal digit, -1 for any other character
HexDigitValue(ch) ==
    IF ch \in 48..57 THEN ch - 48
    ELSE IF ch \in 97..102 THEN ch - 87
    ELSE IF ch \in 65..70 THEN ch - 55
    ELSE -1

\* u8::from_str_radix(hex, 16) on two characters, -1 for Err: two digits,
\* or a plus sign and one digit
HexByte(hex) ==
    IF hex[1] = Plus
    THEN HexDigitValue(hex[2])
    ELSE IF HexDigitValue(hex[1]) = -1 \/ HexDigitValue(hex[2]) = -1
    THEN -1
    ELSE 16 * HexDigitValue(hex[1]) + HexDigitValue(hex[2])

\* result.push(b) ahead of what the rest of the text parses to
PushAhead(b, rest) ==
    IF rest.ok THEN [ok |-> TRUE, bytes |-> <<b>> \o rest.bytes] ELSE rest

\* char::encode_utf8 for a character below U+0800
EncodeUtf8(ch) ==
    IF ch < 128 THEN <<ch>>
    ELSE <<192 + (ch \div 64), 128 + (ch % 64)>>

\* result.extend_from_slice(bytes) ahead of what the rest parses to
ExtendAhead(bytes, rest) ==
    IF rest.ok THEN [ok |-> TRUE, bytes |-> bytes \o rest.bytes] ELSE rest

\* parse_escaped_str
RECURSIVE ParseEscapedStr(_)
ParseEscapedStr(s) ==
    IF s = <<>> THEN [ok |-> TRUE, bytes |-> <<>>]
    ELSE IF s[1] # Backslash
    THEN ExtendAhead(EncodeUtf8(s[1]), ParseEscapedStr(Tail(s)))
    ELSE IF Len(s) = 1 THEN Err("TrailingBackslash")
    ELSE IF s[2] = Backslash
    THEN PushAhead(Backslash, ParseEscapedStr(Drop(s, 2)))
    ELSE IF s[2] = LowerE THEN PushAhead(ESC, ParseEscapedStr(Drop(s, 2)))
    ELSE IF s[2] = LowerN THEN PushAhead(LF, ParseEscapedStr(Drop(s, 2)))
    ELSE IF s[2] = LowerR THEN PushAhead(CR, ParseEscapedStr(Drop(s, 2)))
    ELSE IF s[2] = LowerT THEN PushAhead(TAB, ParseEscapedStr(Drop(s, 2)))
    ELSE IF s[2] = LowerX
    THEN LET hex_chars == SubSeq(s, 3, Min(4, Len(s))) IN
         IF Len(hex_chars) # 2 THEN Err("InvalidHex")
         ELSE IF HexByte(hex_chars) = -1 THEN Err("InvalidHex")
         ELSE PushAhead(HexByte(hex_chars), ParseEscapedStr(Drop(s, 4)))
    ELSE Err("UnknownEscape")

\* mutant of RuleParse: an empty FROM is accepted
RuleParse_EmptyFromAccepted(s) ==
    LET colons == {i \in 1..Len(s) : s[i] = Colon} IN
    IF colons = {} THEN Err("MissingColon")
    ELSE LET at   == CHOOSE i \in colons : \A j \in colons : i <= j
             from == ParseEscapedStr(Take(s, at - 1))
             to   == ParseEscapedStr(Drop(s, at))
         IN  IF ~from.ok THEN from
             ELSE IF ~to.ok THEN to
             ELSE [ok |-> TRUE,
                   rule |-> [from |-> from.bytes, to |-> to.bytes]]

\* RewriteRule::parse: the text is split at its first colon, FROM is parsed,
\* then TO, then an empty FROM is refused
RuleParse(s) ==
    LET colons == {i \in 1..Len(s) : s[i] = Colon} IN
    IF colons = {} THEN Err("MissingColon")
    ELSE LET at   == CHOOSE i \in colons : \A j \in colons : i <= j
             from == ParseEscapedStr(Take(s, at - 1))
             to   == ParseEscapedStr(Drop(s, at))
         IN  IF ~from.ok THEN from
             ELSE IF ~to.ok THEN to
             ELSE IF from.bytes = <<>> THEN Err("EmptyFrom")
             ELSE [ok |-> TRUE,
                   rule |-> [from |-> from.bytes, to |-> to.bytes]]

\* the longest rule text of the first --input-rewrite option
MaxRuleText == 5

\* the characters of a rule text: \ : a e x 1
RuleChars == {Backslash, Colon, 97, LowerE, LowerX, 49}

\* the texts of the first --input-rewrite option
RuleTexts == SeqsOf(RuleChars, 0, MaxRuleText)

\* the texts of a second --input-rewrite option: a:a, a, :a, a:\
LaterRuleTexts ==
    {<<97, Colon, 97>>, <<97>>, <<Colon, 97>>, <<97, Colon, Backslash>>}

\* the values of the --input-rewrite options of a command line, in order
ArgLists ==
    {<<>>} \cup {<<s>> : s \in RuleTexts}
           \cup {<<s, t>> : s \in RuleTexts, t \in LaterRuleTexts}

VARIABLES
    argv,            \* the values of the --input-rewrite options
    argPos,          \* how many of them parse_args has taken
    rewrite_rules,   \* the rules parse_args has pushed
    argState,        \* "parsing", "failed" (parse_args returned Err),
                     \* "parsed" (it returned Arguments), "running" (the
                     \* Runtime with its InputRewriter has been built)
    argError,        \* the text and the error parse_args failed with
    argTokens        \* the escaped pieces argv[1] was written from, when it
                     \* was written from byte sequences

argVars == <<argv, argPos, rewrite_rules, argState, argError, argTokens>>

\* argv was not written from byte sequences
NoTokens == [from |-> <<>>, to |-> <<>>]

ArgInit ==
    /\ argv \in ArgLists
    /\ argPos = 0
    /\ rewrite_rules = <<>>
    /\ argState = "parsing"
    /\ argError = None
    /\ argTokens = NoTokens

ArgIdle ==
    /\ argv = <<>>
    /\ argPos = 0
    /\ rewrite_rules = <<>>
    /\ argState = "none"
    /\ argError = None
    /\ argTokens = NoTokens

\* parse_args, the arm of --input-rewrite: the rule is pushed, or the
\* function returns the error with the rule's text
ArgInputRewrite ==
    /\ argState = "parsing"
    /\ argPos < Len(argv)
    /\ LET value == argv[argPos + 1]
           r     == RuleParse(value)
       IN  IF r.ok
           THEN /\ rewrite_rules' = Append(rewrite_rules, r.rule)
                /\ argPos' = argPos + 1
                /\ UNCHANGED <<argState, argError>>
           ELSE /\ argState' = "failed"
                /\ argError' = [some |-> TRUE, value |-> value,
                                error |-> r.error]
                /\ UNCHANGED <<rewrite_rules, argPos>>
    /\ UNCHANGED <<argv, argTokens>>

\* parse_args, after the last argument: Ok(Arguments)
ArgFinish ==
    /\ argState = "parsing"
    /\ argPos = Len(argv)
    /\ argState' = "parsed"
    /\ UNCHANGED <<argv, argPos, rewrite_rules, argError, argTokens>>

\* Arguments::try_into_runtime: InputRewriter::new(self.rewrite_rules)
ArgTryIntoRuntime ==
    /\ argState = "parsed"
    /\ argState' = "running"
    /\ UNCHANGED <<argv, argPos, rewrite_rules, argError, argTokens>>

(***************************************************************************)
(* Rule texts with one \x escape, in FROM or in TO.                        *)
(***************************************************************************)
\* the characters that follow \x: the digits 0 and 9, a f A F, g and G, a
\* plus and a minus sign, a space, x
HexChars == {48, 57, 97, 102, 65, 70, 103, 71, Plus, Dash, Space, LowerX}

\* what follows \x: two characters, one, or none
HexTails ==
    {<<>>} \cup {<<h>> : h \in HexChars}
           \cup {<<h, l>> : h \in HexChars, l \in HexChars}

\* rule texts whose FROM, or whose TO, is one \x escape
HexRuleTexts ==
    {<<Backslash, LowerX>> \o t \o <<Colon, 49>> : t \in HexTails}
    \cup {<<49, Colon, Backslash, LowerX>> \o t : t \in HexTails}

ArgHexInit ==
    /\ argv \in {<<s>> : s \in HexRuleTexts}
    /\ argPos = 0
    /\ rewrite_rules = <<>>
    /\ argState = "parsing"
    /\ argError = None
    /\ argTokens = NoTokens

(***************************************************************************)
(* Rule texts written from byte sequences, as the tests of escape.rs and   *)
(* rule.rs write them.                                                     *)
(***************************************************************************)
\* the most escaped pieces in FROM and in TO
MaxFromTokens == 2
MaxToTokens == 1

\* one digit of format!("{b:02x}") or format!("{b:02X}")
HexDigitChar(v, upper) ==
    IF v < 10 THEN 48 + v ELSE IF upper THEN 55 + v ELSE 87 + v

\* an escaped piece and the bytes it stands for
Token(text, bytes) == [text |-> text, bytes |-> bytes]

\* arb_valid_char: a character other than a backslash (a, 1, U+00E9, a
\* colon) for its UTF-8 bytes, \\ \e \n \r \t, and \xhh or \xHH for the bytes
\* 0x09, 0x3A and 0xAF
ValidTokens ==
    {Token(<<ch>>, EncodeUtf8(ch)) : ch \in {97, 49, 233, Colon}}
    \cup {Token(<<Backslash, Backslash>>, <<Backslash>>),
          Token(<<Backslash, LowerE>>, <<ESC>>),
          Token(<<Backslash, LowerN>>, <<LF>>),
          Token(<<Backslash, LowerR>>, <<CR>>),
          Token(<<Backslash, LowerT>>, <<TAB>>)}
    \cup {Token(<<Backslash, LowerX, HexDigitChar(b \div 16, u),
                  HexDigitChar(b % 16, u)>>, <<b>>) :
            b \in {9, 58, 175}, u \in BOOLEAN}

\* the pieces of a FROM: no colon in the escaped text
ValidFromTokens == {t \in ValidTokens : \A i \in 1..Len(t.text) : t.text[i] # Colon}

RECURSIVE TokensText(_)
TokensText(ts) == IF ts = <<>> THEN <<>> ELSE Head(ts).text \o TokensText(Tail(ts))

RECURSIVE TokensBytes(_)
TokensBytes(ts) ==
    IF ts = <<>> THEN <<>> ELSE Head(ts).bytes \o TokensBytes(Tail(ts))

\* arb_rule: the text escaped_from:escaped_to
ArgTokensInit ==
    /\ argTokens \in [from : SeqsOf(ValidFromTokens, 1, MaxFromTokens),
                      to : SeqsOf(ValidTokens, 0, MaxToTokens)]
    /\ argv = <<TokensText(argTokens.from) \o <<Colon>>
                    \o TokensText(argTokens.to)>>
    /\ argPos = 0
    /\ rewrite_rules = <<>>
    /\ argState = "parsing"
    /\ argError = None

(***************************************************************************)
(* ZWSP insertion after Up/Down arrows (src/input_rewrite/zwsp_inserter.rs)*)
(***************************************************************************)
UpperA == 65

\* ZWSP (U+200B) in UTF-8
ZWSP == <<226, 128, 139>>

\* a CSI parameter or intermediate byte, 0x20..=0x3f
IsCsiParamByte(b) == b \in 32..63

\* one pass of the loop of ZwspInserter::write: the state after the byte b
ZwNextState(state, b) ==
    CASE state = "Idle" -> IF b = ESC THEN "EscSeen" ELSE "Idle"
      [] state = "EscSeen" ->
            IF b = LBracket THEN "CsiStart"
            ELSE IF b = ESC THEN "EscSeen" ELSE "Idle"
      [] state \in {"CsiStart", "CsiParam"} ->
            IF b = UpperA \/ b = UpperB THEN "Triggered"
            ELSE IF IsCsiParamByte(b) THEN "CsiParam" ELSE "Idle"
      [] state = "Triggered" ->
            IF IsAsciiDigit(b) THEN "Idle"
            ELSE IF b = ESC THEN "EscSeen" ELSE "Idle"

\* mutant of ZwWritten: the ZWSP goes before any byte after the arrow
ZwWritten_BeforeAnyByte(state, b) ==
    IF state = "Triggered" THEN ZWSP \o <<b>> ELSE <<b>>

\* one pass of the loop of ZwspInserter::write: what is written for b
ZwWritten(state, b) ==
    IF state = "Triggered" /\ IsAsciiDigit(b) THEN ZWSP \o <<b>> ELSE <<b>>

\* mutant of ZwWriteBuf: every call starts from Idle
RECURSIVE ZwWriteBuf_FromIdle(_, _, _)
ZwWriteBuf_FromIdle(state, buf, fresh) ==
    IF buf = <<>> THEN [state |-> state, out |-> <<>>]
    ELSE LET from == IF fresh THEN "Idle" ELSE state
             rest == ZwWriteBuf_FromIdle(ZwNextState(from, Head(buf)),
                                         Tail(buf), FALSE)
         IN  [state |-> rest.state,
              out |-> ZwWritten(from, Head(buf)) \o rest.out]

\* ZwspInserter::write on an inner writer that takes every byte: the state
\* it leaves and the bytes it writes; fresh is TRUE at the call's first byte
RECURSIVE ZwWriteBuf(_, _, _)
ZwWriteBuf(state, buf, fresh) ==
    IF buf = <<>> THEN [state |-> state, out |-> <<>>]
    ELSE LET rest == ZwWriteBuf(ZwNextState(state, Head(buf)), Tail(buf),
                                FALSE)
         IN  [state |-> rest.state,
              out |-> ZwWritten(state, Head(buf)) \o rest.out]

\* where the run of parameter bytes that starts at i ends: the index of the
\* first byte from i on that is none, Len(s) + 1 when there is no such byte
RECURSIVE ZwParamsEnd(_, _)
ZwParamsEnd(s, i) ==
    IF i <= Len(s) /\ IsCsiParamByte(s[i]) THEN ZwParamsEnd(s, i + 1) ELSE i

\* the index of the A or B of an Up/Down arrow sequence that starts at i,
\* 0 when none starts there
ZwArrowEnd(s, i) ==
    IF i + 1 <= Len(s) /\ s[i] = ESC /\ s[i + 1] = LBracket
    THEN LET j == ZwParamsEnd(s, i + 2)
         IN  IF j <= Len(s) /\ (s[j] = UpperA \/ s[j] = UpperB) THEN j ELSE 0
    ELSE 0

\* a match of (\x1b\[[\x20-\x3f]*[AB])([0-9]) that starts at i: the index of
\* its digit, 0 when none starts there
ZwMatchDigit(s, i) ==
    LET j == ZwArrowEnd(s, i)
    IN  IF j > 0 /\ j + 1 <= Len(s) /\ IsAsciiDigit(s[j + 1]) THEN j + 1 ELSE 0

\* run_with_regex from byte i on: replace_all of the leftmost matches that
\* do not overlap by "$1", ZWSP, "$2"
RECURSIVE ZwRegexFrom(_, _)
ZwRegexFrom(s, i) ==
    IF i > Len(s) THEN <<>>
    ELSE LET d == ZwMatchDigit(s, i)
         IN  IF d > 0
             THEN SubSeq(s, i, d - 1) \o ZWSP \o <<s[d]>> \o ZwRegexFrom(s, d + 1)
             ELSE <<s[i]>> \o ZwRegexFrom(s, i + 1)

\* run_with_regex
ZwRunWithRegex(s) == ZwRegexFrom(s, 1)

\* strip_zwsp: the bytes without the ZWSPs, leftmost first
RECURSIVE StripZwsp(_)
StripZwsp(s) ==
    IF s = <<>> THEN <<>>
    ELSE IF Len(s) >= 3 /\ SubSeq(s, 1, 3) = ZWSP
         THEN StripZwsp(SubSeq(s, 4, Len(s)))
         ELSE <<Head(s)>> \o StripZwsp(Tail(s))

\* the longest input
MaxZwInput == 6

\* the bytes of an input: ESC [ A 1 a
ZwBytes == {ESC, LBracket, UpperA, 49, 97}

\* inputs with a Down arrow, a parameter that is no digit, and a ZWSP
ZwOtherInputs ==
    {<<ESC, LBracket, UpperB, 48>>,
     <<ESC, LBracket, Semicolon, UpperB, 57, 57>>,
     <<ESC, LBracket, UpperC, 49>>,
     ZWSP \o <<97>>}

\* the inputs written through the inserter
ZwInputs == SeqsOf(ZwBytes, 0, MaxZwInput) \cup ZwOtherInputs

VARIABLES
    zinput,   \* the bytes the callers write, all calls together
    zpos,     \* how many of them have been written
    zstate,   \* ZwspInserter.state
    zout,     \* the bytes the inner writer has taken
    zret      \* what the last call of write returned

zwVars == <<zinput, zpos, zstate, zout, zret>>

\* ZwspInserter::new
ZwInit ==
    /\ zinput \in ZwInputs
    /\ zpos = 0
    /\ zstate = "Idle"
    /\ zout = <<>>
    /\ zret = 0

ZwIdle ==
    /\ zinput = <<>>
    /\ zpos = 0
    /\ zstate = "Idle"
    /\ zout = <<>>
    /\ zret = 0

\* ZwspInserter::write on the next n bytes
ZwWrite ==
    /\ zpos < Len(zinput)
    /\ \E n \in 1..(Len(zinput) - zpos) :
       \E r \in {ZwWriteBuf(zstate, SubSeq(zinput, zpos + 1, zpos + n), TRUE)} :
           /\ zstate' = r.state
           /\ zout' = zout \o r.out
           /\ zpos' = zpos + n
           /\ zret' = n
    /\ UNCHANGED zinput

(***************************************************************************)
(* The notification channel between the output thread and the delivery     *)
(* thread (src/main.rs, intercept)                                          *)
(***************************************************************************)
\* sync_channel::<String>(10)
NotificationCapacity == 10

\* how many confirmations the output thread tries to send
MaxConfirmations == 12

\* mutant of TrySend: SyncSender::send, which waits for room
Send_Blocking(chan, message) ==
    IF Len(chan) < NotificationCapacity
    THEN [result |-> "Ok", chan |-> Append(chan, message)]
    ELSE [result |-> "Blocked", chan |-> chan]

\* SyncSender::try_send on a connected channel: the message is queued when
\* there is room, and handed back in Err(Full) at once when there is none
TrySend(chan, message) ==
    IF Len(chan) < NotificationCapacity
    THEN [result |-> "Ok", chan |-> Append(chan, message)]
    ELSE [result |-> "Full", chan |-> chan]

\* what one read of the program's output leads to
ReadOutcomes == {"confirmation", "not_utf8", "prompt", "other", "end"}

VARIABLES
    ntChan,       \* the messages in the channel, oldest first
    ntOutPc,      \* the output thread: "read", "send" or "done"
    ntNotified,   \* notified
    ntSends,      \* how many messages were handed to try_send
    ntLast,       \* the last try_send: its message and its result
    ntDelPc,      \* the delivery thread: "recv", "deliver" or "done"
    ntMessage,    \* message, while it is delivered
    ntDelivered   \* the messages given to deliver and say

ntVars == <<ntChan, ntOutPc, ntNotified, ntSends, ntLast, ntDelPc, ntMessage,
            ntDelivered>>

NoSend == [message |-> 0, result |-> "none"]

\* both threads spawned, nothing read yet
NtInit ==
    /\ ntChan = <<>>
    /\ ntOutPc = "read"
    /\ ntNotified = FALSE
    /\ ntSends = 0
    /\ ntLast = NoSend
    /\ ntDelPc = "recv"
    /\ ntMessage = 0
    /\ ntDelivered = <<>>

NtIdle ==
    /\ ntChan = <<>>
    /\ ntOutPc = "done"
    /\ ntNotified = FALSE
    /\ ntSends = 0
    /\ ntLast = NoSend
    /\ ntDelPc = "done"
    /\ ntMessage = 0
    /\ ntDelivered = <<>>

\* the output thread's loop from reader.read to the test of notified: the
\* bytes are copied to stdout and the window is matched
NtRead ==
    /\ ntOutPc = "read"
    /\ \E outcome \in ReadOutcomes :
          CASE outcome = "end" ->
                  ntOutPc' = "done" /\ UNCHANGED ntNotified
            [] outcome = "confirmation" ->
                  IF ~ntNotified /\ ntSends < MaxConfirmations
                  THEN ntOutPc' = "send" /\ UNCHANGED ntNotified
                  ELSE UNCHANGED <<ntOutPc, ntNotified>>
            [] outcome = "not_utf8" ->
                  ntNotified' = TRUE /\ UNCHANGED ntOutPc
            [] outcome = "prompt" ->
                  ntNotified' = FALSE /\ UNCHANGED ntOutPc
            [] outcome = "other" ->
                  UNCHANGED <<ntOutPc, ntNotified>>
    /\ UNCHANGED <<ntChan, ntSends, ntLast, ntDelPc, ntMessage, ntDelivered>>

\* let _ = notification_tx.try_send(..); notified = true
NtTrySend ==
    /\ ntOutPc = "send"
    /\ \E r \in {TrySend(ntChan, ntSends + 1)} :
          /\ r.result # "Blocked"
          /\ ntChan' = r.chan
          /\ ntLast' = [message |-> ntSends + 1, result |-> r.result]
    /\ ntSends' = ntSends + 1
    /\ ntNotified' = TRUE
    /\ ntOutPc' = "read"
    /\ UNCHANGED <<ntDelPc, ntMessage, ntDelivered>>

\* notification_rx.recv(): the oldest message, or the end of the loop when
\* the channel is empty and the sender is gone
NtRecv ==
    /\ ntDelPc = "recv"
    /\ IF ntChan # <<>>
       THEN /\ ntMessage' = Head(ntChan)
            /\ ntChan' = Tail(ntChan)
            /\ ntDelPc' = "deliver"
       ELSE /\ ntOutPc = "done"
            /\ ntDelPc' = "done"
            /\ UNCHANGED <<ntChan, ntMessage>>
    /\ UNCHANGED <<ntOutPc, ntNotified, ntSends, ntLast, ntDelivered>>

\* deliver and say return
NtDeliver ==
    /\ ntDelPc = "deliver"
    /\ ntDelivered' = Append(ntDelivered, ntMessage)
    /\ ntMessage' = 0
    /\ ntDelPc' = "recv"
    /\ UNCHANGED <<ntChan, ntOutPc, ntNotified, ntSends, ntLast>>

\* a step of the output thread
NtOutputStep == NtRead \/ NtTrySend

(***************************************************************************)
(* adjust_line_wrapping pass by pass of its loop 'outer                     *)
(***************************************************************************)
\* ESC [ ? 2 5 h, ESC ] 0 ; t BEL and ESC [ m
TmShowCursor == <<ESC, LBracket, 63, 50, 53, 104>>
TmTitle == <<ESC, RBracket, 48, Semicolon, 116, BEL>>
TmSgr == <<ESC, LBracket, 109>>

\* first lines: bbba: and bbbba (as wide as the narrower terminal, ending
\* inside a URL scheme), b, and a://b
TmFirstBodies ==
    {<<98, 98, 98, 97, Colon>>, <<98, 98, 98, 98, 97>>, <<98>>,
     <<97, Colon, Slash, Slash, 98>>}

\* what ends the first line: LF, CR LF, ShowCursor, a title
TmEnds == {<<LF>>, <<CR, LF>>, TmShowCursor, TmTitle}

\* what the second line begins with: nothing or an SGR sequence, then no
\* indent, a space or a cursor-forward
TmLeads == {<<>>, TmSgr}
TmIndents == {<<>>, <<Space>>, LwCuf}

\* second lines: the rest of a split scheme (//b, ://b), b
TmSecondBodies ==
    {<<Slash, Slash, 98>>, <<Colon, Slash, Slash, 98>>, <<98>>}

\* what follows the second line: nothing or one more line
TmTails == {<<>>, <<98, LF>>}

\* the slices whose fragments the call is made on
TmSlices ==
    {x[1] \o x[2] \o x[3] \o x[4] \o x[5] \o <<LF>> \o x[6] :
        x \in TmFirstBodies \X TmEnds \X TmLeads \X TmIndents
                \X TmSecondBodies \X TmTails}

\* the passes of the loop a call is followed for
MaxPasses == 6

VARIABLES
    psdata,    \* the slice
    psallow,   \* allow_incomplete
    pswidth,   \* terminal_width
    pscursor,       \* cursor
    psprev,    \* prev
    pspasses,  \* the passes of the loop 'outer begun so far
    psres      \* what the call returned, once it has

tmVars == <<psdata, psallow, pswidth, pscursor, psprev, pspasses, psres>>

NotReturned == [returned |-> FALSE]

\* adjust_line_wrapping up to the loop 'outer
TmInit ==
    /\ psdata \in TmSlices
    /\ psallow \in BOOLEAN
    /\ pswidth \in LwWidths
    /\ pscursor = CursorNew(FragmentListParse(psdata, psallow))
    /\ psprev = None
    /\ pspasses = 0
    /\ psres = NotReturned

TmIdle ==
    /\ psdata = <<>>
    /\ psallow = FALSE
    /\ pswidth = 0
    /\ pscursor = CursorNew(<<>>)
    /\ psprev = None
    /\ pspasses = 0
    /\ psres = [returned |-> TRUE, consumed |-> 0, fragments |-> <<>>]

\* one pass of the loop 'outer; the pass that leaves the loop goes on to
\* the end of adjust_line_wrapping
TmPass ==
    /\ ~psres.returned
    /\ pspasses < MaxPasses
    /\ pspasses' = pspasses + 1
    /\ \E r \in {OuterPass(pscursor, psprev, pswidth)} :
          /\ pscursor' = r.c
          /\ psprev' = r.prev
          /\ psres' = IF r.stop
                     THEN One({[returned |-> TRUE, consumed |-> t.consumed,
                                fragments |-> t.fragments] :
                               t \in {Truncate(ForceRelease(r.c, psallow))}})
                     ELSE NotReturned
    /\ UNCHANGED <<psdata, psallow, pswidth>>

(***************************************************************************)
(* Specifications: one for each pipeline, the others standing still.       *)
(***************************************************************************)
vars == <<rwVars, fragVars, bufVars, lwVars, rfVars, argVars, zwVars, ntVars, tmVars>>

InitRewrite == RwInit /\ FragIdle /\ BufIdle /\ LwIdle /\ RfIdle /\ ArgIdle /\ ZwIdle /\ NtIdle /\ TmIdle

NextRewrite ==
    \/ RwRead /\ UNCHANGED <<fragVars, bufVars, lwVars, rfVars, argVars, zwVars, ntVars, tmVars>>
    \/ RwEof /\ UNCHANGED <<fragVars, bufVars, lwVars, rfVars, argVars, zwVars, ntVars, tmVars>>
    \/ RwTimeout /\ UNCHANGED <<fragVars, bufVars, lwVars, rfVars, argVars, zwVars, ntVars, tmVars>>
    \/ RwTick /\ UNCHANGED <<fragVars, bufVars, lwVars, rfVars, argVars, zwVars, ntVars, tmVars>>
    \/ RwInterrupted /\ UNCHANGED <<fragVars, bufVars, lwVars, rfVars, argVars, zwVars, ntVars, tmVars>>

\* the input rewrite engine
SpecRewrite == InitRewrite /\ [][NextRewrite]_vars

\* most rules handed to the engine whose sink and source can fail
MaxFailRules == 1

\* as RwInit, with at most MaxFailRules rules
FailInit ==
    /\ rawRules \in SeqsOf(RewriteRule, 0, MaxFailRules)
    /\ rules = NewRules(rawRules)
    /\ buffer = <<>>
    /\ input \in SeqsOf(RwAlphabet, 0, MaxInput)
    /\ pos = 0
    /\ out = <<>>
    /\ rstate = "running"
    /\ idle = 0
    /\ age = <<>>
    /\ interrupts = 0
    /\ timeouts = 0
    /\ applied = <<>>
    /\ mark = [pos |-> 0, out |-> <<>>]
    /\ lastOp = [op |-> "new"]

InitFailing == FailInit /\ FragIdle /\ BufIdle /\ LwIdle /\ RfIdle /\ ArgIdle /\ ZwIdle /\ NtIdle /\ TmIdle

NextFailing ==
    \/ RwRead /\ UNCHANGED <<fragVars, bufVars, lwVars, rfVars, argVars, zwVars, ntVars, tmVars>>
    \/ RwEof /\ UNCHANGED <<fragVars, bufVars, lwVars, rfVars, argVars, zwVars, ntVars, tmVars>>
    \/ RwTimeout /\ UNCHANGED <<fragVars, bufVars, lwVars, rfVars, argVars, zwVars, ntVars, tmVars>>
    \/ RwTick /\ UNCHANGED <<fragVars, bufVars, lwVars, rfVars, argVars, zwVars, ntVars, tmVars>>
    \/ RwInterrupted /\ UNCHANGED <<fragVars, bufVars, lwVars, rfVars, argVars, zwVars, ntVars, tmVars>>
    \/ RwReadSinkFails /\ UNCHANGED <<fragVars, bufVars, lwVars, rfVars, argVars, zwVars, ntVars, tmVars>>
    \/ RwEofSinkFails /\ UNCHANGED <<fragVars, bufVars, lwVars, rfVars, argVars, zwVars, ntVars, tmVars>>
    \/ RwTimeoutSinkFails /\ UNCHANGED <<fragVars, bufVars, lwVars, rfVars, argVars, zwVars, ntVars, tmVars>>
    \/ RwSourceFails /\ UNCHANGED <<fragVars, bufVars, lwVars, rfVars, argVars, zwVars, ntVars, tmVars>>

\* the input rewrite engine with a sink and a source that can fail
SpecFailing == InitFailing /\ [][NextFailing]_vars

InitFragment == RwIdle /\ FragInit /\ BufIdle /\ LwIdle /\ RfIdle /\ ArgIdle /\ ZwIdle /\ NtIdle /\ TmIdle

NextFragment == FragParse /\ UNCHANGED <<rwVars, bufVars, lwVars, rfVars, argVars, zwVars, ntVars, tmVars>>

\* one call of the fragmenter
SpecFragment == InitFragment /\ [][NextFragment]_vars

InitSequence == RwIdle /\ SeqInit /\ BufIdle /\ LwIdle /\ RfIdle /\ ArgIdle /\ ZwIdle /\ NtIdle /\ TmIdle

NextSequence == FragParse /\ UNCHANGED <<rwVars, bufVars, lwVars, rfVars, argVars, zwVars, ntVars, tmVars>>

\* one call of the fragmenter on an OSC or a CSI sequence
SpecSequence == InitSequence /\ [][NextSequence]_vars

InitOsc == RwIdle /\ OscInit /\ BufIdle /\ LwIdle /\ RfIdle /\ ArgIdle /\ ZwIdle /\ NtIdle /\ TmIdle

\* FragmentList::parse on a terminated OSC and the bytes after it
SpecOsc == InitOsc /\ [][NextSequence]_vars

InitBuffer == RwIdle /\ FragIdle /\ BufInit /\ LwIdle /\ RfIdle /\ ArgIdle /\ ZwIdle /\ NtIdle /\ TmIdle

NextBuffer ==
    \/ BufParse /\ UNCHANGED <<rwVars, fragVars, lwVars, rfVars, argVars, zwVars, ntVars, tmVars>>
    \/ BufExtendFromRead /\ UNCHANGED <<rwVars, fragVars, lwVars, rfVars, argVars, zwVars, ntVars, tmVars>>

\* the byte buffer under any sequence of extend_from_read and parse calls
SpecBuffer == InitBuffer /\ [][NextBuffer]_vars

InitAdjust == RwIdle /\ FragIdle /\ BufIdle /\ LwInit /\ RfIdle /\ ArgIdle /\ ZwIdle /\ NtIdle /\ TmIdle

NextAdjust ==
    LwAdjust /\ UNCHANGED <<rwVars, fragVars, bufVars, rfVars, argVars, zwVars, ntVars, tmVars>>

\* one call of the line-wrap reconstruction
SpecAdjust == InitAdjust /\ [][NextAdjust]_vars

InitReformat == RwIdle /\ FragIdle /\ LwIdle /\ RfInit /\ ArgIdle /\ ZwIdle /\ NtIdle /\ TmIdle

NextReformat ==
    \/ RfParse /\ UNCHANGED <<rwVars, fragVars, lwVars, argVars, zwVars, ntVars, tmVars>>
    \/ RfExtendFromRead /\ UNCHANGED <<rwVars, fragVars, lwVars, argVars, zwVars, ntVars, tmVars>>
    \/ RfSetTerminalWidth /\ UNCHANGED <<rwVars, fragVars, lwVars, argVars, zwVars, ntVars, tmVars>>

\* the byte buffer and a reformatter under any sequence of
\* extend_from_read, parse and set_terminal_width calls
SpecReformat == InitReformat /\ [][NextReformat]_vars

InitArgs ==
    RwIdle /\ FragIdle /\ BufIdle /\ LwIdle /\ RfIdle /\ ArgInit /\ ZwIdle /\ NtIdle /\ TmIdle

NextArgs ==
    \/ ArgInputRewrite /\ UNCHANGED <<rwVars, fragVars, bufVars, lwVars, rfVars, zwVars, ntVars, tmVars>>
    \/ ArgFinish /\ UNCHANGED <<rwVars, fragVars, bufVars, lwVars, rfVars, zwVars, ntVars, tmVars>>
    \/ ArgTryIntoRuntime
           /\ UNCHANGED <<rwVars, fragVars, bufVars, lwVars, rfVars, zwVars, ntVars, tmVars>>

SpecArgs == InitArgs /\ [][NextArgs]_vars

InitHex ==
    RwIdle /\ FragIdle /\ BufIdle /\ LwIdle /\ RfIdle /\ ArgHexInit /\ ZwIdle /\ NtIdle /\ TmIdle

\* parse_args on one --input-rewrite option with a \x escape
SpecHex == InitHex /\ [][NextArgs]_vars

InitRule ==
    RwIdle /\ FragIdle /\ BufIdle /\ LwIdle /\ RfIdle /\ ArgTokensInit /\ ZwIdle /\ NtIdle /\ TmIdle

\* parse_args on one --input-rewrite option written from byte sequences
SpecRule == InitRule /\ [][NextArgs]_vars

InitZwsp ==
    RwIdle /\ FragIdle /\ BufIdle /\ LwIdle /\ RfIdle /\ ArgIdle /\ ZwInit /\ NtIdle /\ TmIdle

NextZwsp ==
    ZwWrite /\ UNCHANGED <<rwVars, fragVars, bufVars, lwVars, rfVars, argVars, ntVars, tmVars>>

\* an input written through one ZwspInserter in any number of calls
SpecZwsp == InitZwsp /\ [][NextZwsp]_vars

InitNotify ==
    RwIdle /\ FragIdle /\ BufIdle /\ LwIdle /\ RfIdle /\ ArgIdle /\ ZwIdle /\ NtInit /\ TmIdle

NextNotify ==
    \/ NtRead /\ UNCHANGED <<rwVars, fragVars, bufVars, lwVars, rfVars, argVars, zwVars, tmVars>>
    \/ NtTrySend /\ UNCHANGED <<rwVars, fragVars, bufVars, lwVars, rfVars, argVars, zwVars, tmVars>>
    \/ NtRecv /\ UNCHANGED <<rwVars, fragVars, bufVars, lwVars, rfVars, argVars, zwVars, tmVars>>
    \/ NtDeliver /\ UNCHANGED <<rwVars, fragVars, bufVars, lwVars, rfVars, argVars, zwVars, tmVars>>

\* the output thread and the delivery thread, in any interleaving; the
\* delivery thread may stay in deliver for ever
InitDivided == RwIdle /\ FragIdle /\ LwIdle /\ DvInit /\ ArgIdle /\ ZwIdle /\ NtIdle /\ TmIdle

\* a buffer that receives text and one escape sequence in any reads
SpecDivided == InitDivided /\ [][NextReformat]_vars

(***************************************************************************)
(* A stream of text one byte longer than the buffer.                       *)
(***************************************************************************)
\* RfN + 1 bytes of text: all b, or b with one line feed
FullStreams ==
    {[i \in 1..(RfN + 1) |-> 98]} \cup
    {[i \in 1..(RfN + 1) |-> IF i = k THEN LF ELSE 98] : k \in 1..(RfN + 1)}

\* Buffer::new and Reformatter::new in front of such a stream
FullInit ==
    /\ stream \in FullStreams
    /\ srcPos = 0
    /\ bdata = [i \in 1..RfN |-> 0]
    /\ start = 0
    /\ end = 0
    /\ emitted = <<>>
    /\ blast = [op |-> "new"]
    /\ mode \in {"Preserve", "Adjust"}
    /\ twidth \in RfWidths

InitFull == RwIdle /\ FragIdle /\ LwIdle /\ FullInit /\ ArgIdle /\ ZwIdle /\ NtIdle /\ TmIdle

\* buffer and reformatter on a stream longer than the buffer
SpecFull == InitFull /\ [][NextReformat]_vars

SpecNotify == InitNotify /\ [][NextNotify]_vars

InitPasses ==
    RwIdle /\ FragIdle /\ BufIdle /\ LwIdle /\ RfIdle /\ ArgIdle /\ ZwIdle /\ NtIdle /\ TmInit

NextPasses ==
    TmPass /\ UNCHANGED <<rwVars, fragVars, bufVars, lwVars, rfVars, argVars, zwVars, ntVars>>

\* one call of adjust_line_wrapping, a pass of its loop at a time
SpecPasses == InitPasses /\ [][NextPasses]_vars


(***************************************************************************)
(* Fragmenter and byte buffer: properties.                                 *)
(***************************************************************************)
\* s begins an escape sequence that s does not end: a lone ESC, an OSC with
\* neither BEL nor ESC \ after its introducer, a CSI with no byte of
\* 0x40..0x7E after its introducer, or another escape (its second byte not
\* in 0x40..0x5E) with no byte of 0x30..0x7E after that
Unterminated(s) ==
    /\ s # <<>>
    /\ s[1] = ESC
    /\ \/ Len(s) = 1
       \/ /\ Len(s) >= 2
          /\ s[2] = RBracket
          /\ \A i \in 3..Len(s) : s[i] # BEL
          /\ \A i \in 3..(Len(s) - 1) : ~(s[i] = ESC /\ s[i + 1] = Backslash)
       \/ /\ Len(s) >= 2
          /\ s[2] = LBracket
          /\ \A i \in 3..Len(s) : s[i] < 64 \/ s[i] > 126
       \/ /\ Len(s) >= 2
          /\ s[2] < 64 \/ s[2] > 94
          /\ \A i \in 3..Len(s) : s[i] < 48 \/ s[i] > 126

\* C2: without line-wrap adjustment the bytes handed out are a prefix of
\* the stream, the bytes handed out followed by the unconsumed region are
\* the bytes read so far, one pass hands out the first `consumed` bytes of
\* the slice it parsed, and once the stream has ended and nothing is
\* pending the bytes handed out are the stream.
C2_PreserveReproducesStream ==
    /\ Len(emitted) <= Len(stream)
    /\ emitted = Take(stream, Len(emitted))
    /\ emitted \o BufSlice(bdata, start, end) = Take(stream, srcPos)
    /\ blast.op = "parse" =>
           /\ blast.consumed <= Len(blast.slice)
           /\ FragmentsData(blast.fragments)
                  = Take(blast.slice, blast.consumed)
    /\ (srcPos = Len(stream) /\ start = end) => emitted = stream

\* C2 witness: a stream longer than the buffer, holding an escape
\* sequence, has ended and has been handed out whole.
C2_Witness ==
    /\ Len(stream) > BufN
    /\ srcPos = Len(stream)
    /\ start = end
    /\ emitted = stream
    /\ blast.op = "parse"
    /\ \E i \in 1..Len(blast.fragments) :
           blast.fragments[i].esc \notin {"None", "Incomplete"}

\* the k for which slice s is a completely tokenized prefix of k bytes
\* followed by an escape sequence that s does not end
UnterminatedTailAt(s) ==
    {k \in 0..(Len(s) - 1) :
        /\ Unterminated(Drop(s, k))
        /\ FragmentListSize(FragmentListParse(Take(s, k), FALSE)) = k}

\* C9: when the slice ends inside an unterminated escape sequence that
\* starts at offset k, FragmentList::parse with allow_incomplete = false
\* returns the fragments of the k bytes before it and no more, and with
\* allow_incomplete = true those fragments followed by one Incomplete
\* fragment holding the rest; a slice that does not end so is consumed
\* whole, with no Incomplete fragment.
C9_UnterminatedTail ==
    fres.returned =>
        LET tails == UnterminatedTailAt(fslice) IN
        /\ \A k \in tails :
               LET head == FragmentListParse(Take(fslice, k), FALSE) IN
               IF fallow
               THEN /\ fres.size = Len(fslice)
                    /\ fres.frags =
                           head \o <<Fragment(Drop(fslice, k), "Incomplete", <<>>)>>
               ELSE /\ fres.size = k
                    /\ fres.frags = head
        /\ tails = {} =>
               /\ fres.size = Len(fslice)
               /\ \A i \in 1..Len(fres.frags) : fres.frags[i].esc # "Incomplete"

\* C9 witness: text followed by the beginning of an OSC, parsed with
\* allow_incomplete = true into a text fragment and an Incomplete fragment.
C9_Witness ==
    /\ fres.returned
    /\ fallow
    /\ Len(fres.frags) = 2
    /\ fres.frags[1].esc = "None"
    /\ fres.frags[2].esc = "Incomplete"
    /\ Len(fres.frags[2].data) >= 2
    /\ fres.frags[2].data[2] = RBracket

\* C10: a parse of a full buffer consumes all N bytes and hands out a
\* trailing unterminated escape sequence as Incomplete; no parse leaves the
\* buffer full; and the extend_from_read that follows a parse reads at
\* least one byte unless the stream has ended.
C10_FullBufferDrains ==
    /\ [](blast.op = "parse" =>
            /\ blast.full =>
                   /\ Len(blast.slice) = BufN
                   /\ blast.consumed = BufN
                   /\ start = end
                   /\ UnterminatedTailAt(blast.slice) # {} =>
                          blast.fragments[Len(blast.fragments)].esc
                              = "Incomplete"
            /\ ~(start = 0 /\ end = BufN))
    /\ [][(blast.op = "parse" /\ blast'.op = "read")
              => (srcPos' > srcPos \/ srcPos = Len(stream))]_vars

\* C10 witness: a full buffer that ends inside an escape sequence has been
\* parsed and consumed whole.
C10_Witness ==
    /\ blast.op = "parse"
    /\ blast.full
    /\ start = BufN
    /\ blast.fragments[Len(blast.fragments)].esc = "Incomplete"



(***************************************************************************)
(* Line-wrap reconstruction: properties.                                   *)
(***************************************************************************)
\* C11 as claimed: a call with allow_incomplete (the buffer is full) on a
\* fragment list that is not empty releases at least one fragment and
\* reports consumed > 0, whatever the list is.
C11_Claimed_FullBufferReleases ==
    (lres.returned /\ lallow /\ lres.parsed # <<>>) =>
        (lres.consumed > 0 /\ lres.fragments # <<>>)

\* C12: in either line-wrap mode and for any terminal width,
\* 0 <= start <= end <= N after every call; a parse never moves start past
\* end and never moves it back, and start decreases only when
\* extend_from_read compacts, which resets it to 0.
C12_StartEndWithinBounds ==
    /\ [](0 <= start /\ start <= end /\ end <= RfN)
    /\ [][/\ blast'.op = "parse" => (start <= start' /\ start' <= end)
          /\ start' < start =>
                 (blast'.op = "read" /\ blast'.compacted /\ start' = 0)]_vars

\* C12 witness: with lines reconstructed, a parse has held back the end of
\* its slice, and the next extend_from_read has compacted the buffer and
\* read more after the bytes held back.
C12_Witness ==
    /\ mode = "Adjust"
    /\ blast.op = "read"
    /\ blast.compacted
    /\ blast.n > 0
    /\ start = 0
    /\ end > blast.n
    /\ emitted # <<>>

(***************************************************************************)
(* OSC and CSI classification: properties.                                 *)
(***************************************************************************)
\* s has neither BEL nor ESC
NoBelNoEsc(s) == \A i \in 1..Len(s) : s[i] # BEL /\ s[i] # ESC

\* s is ESC ] body t for a terminator t (BEL or ESC \) and a body with
\* neither BEL nor ESC
IsTerminatedOsc(s) ==
    \E t \in OscTerminators :
        /\ Len(s) >= 2 + Len(t)
        /\ StartsWith(s, <<ESC, RBracket>>)
        /\ EndsWith(s, t)
        /\ NoBelNoEsc(SubSeq(s, 3, Len(s) - Len(t)))

\* the bytes of a terminated OSC between ESC ] and its terminator
OscBody(s) ==
    SubSeq(s, 3, Len(s) - (IF s[Len(s)] = BEL THEN 1 ELSE 2))

\* numeric-coded payload: a non-empty run of ASCII digits, then nothing or
\* a ; and further text
NumericCoded(p) ==
    LET n == CountWhileIn(p, 48..57)
    IN  n > 0 /\ (n = Len(p) \/ p[n + 1] = Semicolon)

\* C13 as claimed: ESC ] 0 ; payload (the payload possibly empty) and, for
\* a payload that is not empty and not numeric-coded, ESC ] 9 ; payload,
\* terminated by BEL or ESC \, parse to one fragment whose data is the
\* whole sequence, tagged SetWindowAndIconTitle(payload) and
\* PostNotification(payload).
C13_Claimed_TitleAndNotification ==
    (fres.returned /\ IsTerminatedOsc(fslice)) =>
        LET body    == OscBody(fslice)
            payload == Drop(body, 2)
        IN  /\ StartsWith(body, <<Digit0, Semicolon>>) =>
                   fres.frags =
                       <<Fragment(fslice, "SetWindowAndIconTitle", payload)>>
            /\ (/\ StartsWith(body, <<Digit9, Semicolon>>)
                /\ payload # <<>>
                /\ ~NumericCoded(payload)) =>
                   fres.frags =
                       <<Fragment(fslice, "PostNotification", payload)>>

\* C14 as claimed: a terminated OSC 9 is PostNotification(payload) unless
\* its payload is numeric-coded, then it is Other; an OSC whose prefix is
\* neither 0; nor 9; is Other.
C14_Claimed_NumericCodedIsOther ==
    (fres.returned /\ IsTerminatedOsc(fslice)) =>
        LET body    == OscBody(fslice)
            payload == Drop(body, 2)
        IN  /\ Len(fres.frags) = 1
            /\ StartsWith(body, <<Digit9, Semicolon>>) =>
                   fres.frags[1].esc =
                       (IF NumericCoded(payload) THEN "Other"
                        ELSE "PostNotification")
            /\ (/\ ~StartsWith(body, <<Digit0, Semicolon>>)
                /\ ~StartsWith(body, <<Digit9, Semicolon>>)) =>
                   fres.frags[1].esc = "Other"

\* s is ESC [ followed by bytes of which only the last is in 0x40..0x7E: a
\* complete CSI sequence
IsCompleteCsi(s) ==
    /\ Len(s) >= 3
    /\ StartsWith(s, <<ESC, LBracket>>)
    /\ s[Len(s)] \in 64..126
    /\ \A i \in 3..(Len(s) - 1) : s[i] \notin 64..126

\* the tag C15 claims for a complete CSI sequence
C15_ClaimedTag(s) ==
    IF s = <<ESC, LBracket, Question, Digit2, Digit5, LowerH>>
    THEN "ShowCursor"
    ELSE IF s = <<ESC, LBracket, Question, Digit2, Digit5, LowerL>>
    THEN "EndSynchronizedUpdate"
    ELSE "Other"

\* the tag the amended C15 states
C15_AmendedTag(s) ==
    IF s = <<ESC, LBracket, Question, Digit2, Digit5, LowerH>>
    THEN "ShowCursor"
    ELSE IF s = <<ESC, LBracket, Question, Digit2, Digit0, Digit2, Digit6,
                  LowerL>>
    THEN "EndSynchronizedUpdate"
    ELSE "Other"

\* C15 as claimed: the first fragment of a slice that begins with a
\* complete CSI sequence is that sequence, ending at the first byte in
\* 0x40..0x7E after ESC [; it is tagged ShowCursor when it is ESC [ ? 2 5 h,
\* EndSynchronizedUpdate when it is ESC [ ? 2 5 l, and Other otherwise.
C15_Claimed_CsiTags ==
    fres.returned =>
        \A n \in 3..Len(fslice) :
            IsCompleteCsi(Take(fslice, n)) =>
                /\ fres.frags # <<>>
                /\ fres.frags[1].data = Take(fslice, n)
                /\ fres.frags[1].esc = C15_ClaimedTag(Take(fslice, n))

\* C15 amended: as claimed, but the end-of-synchronized-update marker is
\* ESC [ ? 2 0 2 6 l, and ESC [ ? 2 5 l is tagged Other.
C15_CsiTags ==
    fres.returned =>
        \A n \in 3..Len(fslice) :
            IsCompleteCsi(Take(fslice, n)) =>
                /\ fres.frags # <<>>
                /\ fres.frags[1].data = Take(fslice, n)
                /\ fres.frags[1].esc = C15_AmendedTag(Take(fslice, n))
                /\ FragmentsData(fres.frags) = Take(fslice, fres.size)

\* C15 witness: ESC [ ? 2 0 2 6 l followed by a letter has been parsed
\* and its first fragment is the end-of-synchronized-update marker.
C15_Witness ==
    /\ fres.returned
    /\ fslice = <<ESC, LBracket, Question, Digit2, Digit0, Digit2, Digit6,
                  LowerL, 109>>
    /\ Len(fres.frags) = 2
    /\ fres.frags[1].esc = "EndSynchronizedUpdate"

(***************************************************************************)
(* Line-wrap reconstruction on a stream: properties.                       *)
(***************************************************************************)
\* s is a prefix of t
IsPrefix(s, t) == Len(s) <= Len(t) /\ s = SubSeq(t, 1, Len(s))

\* C16 as claimed, read on the stream and allowing for bytes that are held
\* back or that a full buffer releases untouched: in Adjust mode, for a
\* stream whose first line is :// (its rightmost :// runs to the end of the
\* line, and the line is within 4 columns of every terminal width set) and
\* whose next line is one space of indent and letters only, followed by a
\* line feed, what is emitted is at every moment the beginning of the stream
\* with the break between the two lines and the indent removed and every
\* other byte in place, or the beginning of the stream untouched.
C16_Claimed_UrlEmittedUnbroken ==
    \A t \in RfBreaks, b \in {<<98>>, <<98, 98>>}, z \in RfTails :
        (/\ mode = "Adjust"
         /\ stream = <<Colon, Slash, Slash>> \o t \o <<Space>> \o b
                         \o <<LF>> \o z)
        => \/ IsPrefix(emitted, <<Colon, Slash, Slash>> \o b \o <<LF>> \o z)
           \/ IsPrefix(emitted, stream)

(***************************************************************************)
(* One call of adjust_line_wrapping: properties.                           *)
(***************************************************************************)
\* one of s and t is the beginning of the other
Comparable(s, t) == IsPrefix(s, t) \/ IsPrefix(t, s)

\* indents of one or two spaces
SpaceIndents == {<<Space>>, <<Space, Space>>}

\* a line body that begins with an unordered-list marker (- then a space or
\* the end) or an ordered-list marker (digits, a dot, then a space or the
\* end)
BeginsWithListMarker(body) ==
    LET d == CountWhileIn(body, 48..57) IN
    \/ /\ Len(body) >= 1 /\ body[1] = Dash
       /\ (Len(body) = 1 \/ body[2] = Space)
    \/ /\ d >= 1 /\ Len(body) > d /\ body[d + 1] = Dot
       /\ (Len(body) = d + 1 \/ body[d + 2] = Space)

\* the second line of the slice is lshape.second: a break ends it, or the
\* slice does
SecondLineEnds == lshape.brk2 # <<>> \/ lshape.tail = <<>>

\* the slice up to the end of its second line, the line's break excluded
UpToSecondLine ==
    lshape.prefix \o lshape.first \o lshape.brk \o lshape.indent
        \o lshape.second

\* C17: a second line that begins, after one or two spaces, with a list
\* marker is never joined onto the line before it, whatever that line is:
\* what the call emits up to the end of the list line is the slice as it
\* was, the break before the list line and its indent included.
C17_ListItemNotJoined ==
    (/\ lres.returned
     /\ lshape.indent \in SpaceIndents
     /\ BeginsWithListMarker(lshape.second)
     /\ SecondLineEnds)
    => Comparable(lres.out, UpToSecondLine)

\* a list line after a line that qualifies as a wrapped URL at the terminal
\* edge has been emitted whole, with the break before it and its indent
C17_Witness ==
    /\ lres.returned
    /\ lshape.indent \in SpaceIndents
    /\ BeginsWithListMarker(lshape.second)
    /\ SecondLineEnds
    /\ ShouldAttemptUrlUnwrap(lshape.first, lwidth)
    /\ LineWidth(lshape.first) = lwidth
    /\ IsPrefix(UpToSecondLine, lres.out)

\* a line as wide as the terminal that holds a URL running to its end
FullWidthUrlLine(line) ==
    LineWidth(line) = lwidth /\ ShouldAttemptUrlUnwrap(line, lwidth)

\* the text of a continuation line: printable non-space bytes without a
\* colon that do not begin with a list marker
ContinuationText(body) ==
    /\ body # <<>>
    /\ IsAsciiGraphicRun(body)
    /\ \A i \in 1..Len(body) : body[i] # Colon
    /\ ~BeginsWithListMarker(body)

\* lshape.indent and lshape.second are a continuation line as wide as the
\* terminal: one or two columns of indent, then continuation text
SecondIsFullWidthContinuation ==
    /\ lshape.indent \in SpaceIndents \cup {LwCuf}
    /\ ContinuationText(lshape.second)
    /\ (IF lshape.indent = LwCuf THEN 1 ELSE Len(lshape.indent))
           + Len(lshape.second) = lwidth

\* lshape.tail is a continuation line as wide as the terminal with no break
TailIsFullWidthContinuation ==
    LET n == CountWhileIn(lshape.tail, {Space}) IN
    /\ n \in 1..MAX_CONTINUATION_INDENT
    /\ ContinuationText(Drop(lshape.tail, n))
    /\ Len(lshape.tail) = lwidth

\* the slice ends with a wrapped-URL group whose last line has no break:
\* the URL line alone, or with one or two continuation lines
EndsWithPendingUrlGroup ==
    /\ FullWidthUrlLine(lshape.first)
    /\ \/ lshape.brk = <<>> /\ lshape.tail = <<>>
       \/ /\ lshape.brk # <<>>
          /\ SecondIsFullWidthContinuation
          /\ \/ lshape.brk2 = <<>> /\ lshape.tail = <<>>
             \/ lshape.brk2 # <<>> /\ TailIsFullWidthContinuation

\* C18: with allow_incomplete false, when the slice ends with a wrapped-URL
\* group of full-width lines whose last line has no break, behind nothing or
\* a complete line, the call consumes exactly the bytes before the group
\* (consumed plus the group's length is the slice's length) and emits
\* nothing of the group.
C18_PendingGroupHeldBack ==
    (/\ lres.returned
     /\ ~lallow
     /\ EndsWithPendingUrlGroup)
    => /\ lres.consumed + (Len(ldata) - Len(lshape.prefix)) = Len(ldata)
       /\ lres.out = lshape.prefix

\* a group of a URL line and two continuation lines behind a complete line
\* has been held back
C18_Witness ==
    /\ lres.returned
    /\ ~lallow
    /\ EndsWithPendingUrlGroup
    /\ lshape.prefix # <<>>
    /\ lshape.brk2 # <<>>
    /\ lres.consumed = Len(lshape.prefix)

\* every line of the slice has its break and the last line is empty
EndsWithEmptyLine ==
    /\ lshape.brk # <<>>
    /\ lshape.second # <<>> => lshape.brk2 # <<>>
    /\ lshape.tail = <<LF>>

\* C19: with allow_incomplete false, for a slice of complete lines and
\* wrapped-URL groups, with LF, CR LF or CR cursor-down breaks and space or
\* cursor-forward indents, that ends with an empty line, the call reports
\* consumed = the slice's length, at either terminal width.
C19_NothingHeldBack ==
    (/\ lres.returned
     /\ ~lallow
     /\ EndsWithEmptyLine)
    => lres.consumed = Len(ldata)

\* at terminal width 10, a slice that ends with an empty line and whose
\* wrapped URL was joined across a CR cursor-down break has been consumed
\* whole
C19_Witness ==
    /\ lres.returned
    /\ ~lallow
    /\ lwidth = 10
    /\ EndsWithEmptyLine
    /\ lshape.brk = <<CR>> \o LwCud
    /\ lres.out = lshape.prefix \o lshape.first \o lshape.second
                      \o lshape.brk2 \o lshape.tail
    /\ lres.consumed = Len(ldata)

(***************************************************************************)
(* Rewrite rules from the command line: properties.                        *)
(***************************************************************************)
\* the backslash at index i of s begins an escape: an even number of
\* backslashes stands immediately before it
EscapeBackslashAt(s, i) ==
    /\ s[i] = Backslash
    /\ \E k \in 0..(i - 1) :
           /\ k % 2 = 0
           /\ \A j \in (i - k)..(i - 1) : s[j] = Backslash
           /\ (i - k = 1 \/ s[i - k - 1] # Backslash)

\* the four defects of a rule text
MissingSeparator(s) == \A i \in 1..Len(s) : s[i] # Colon
EmptyFromText(s) == s # <<>> /\ s[1] = Colon
UnknownEscapeIn(s) ==
    \E i \in 1..(Len(s) - 1) :
        /\ EscapeBackslashAt(s, i)
        /\ s[i + 1] \notin {Backslash, LowerE, LowerN, LowerR, LowerT, LowerX}
UnterminatedBackslash(s) == s # <<>> /\ EscapeBackslashAt(s, Len(s))

DefectiveRuleText(s) ==
    \/ MissingSeparator(s)
    \/ EmptyFromText(s)
    \/ UnknownEscapeIn(s)
    \/ UnterminatedBackslash(s)

\* C20: RewriteRule::parse returns an error, and no rule, for every rule
\* text with no colon, with an empty FROM, with a backslash that begins an
\* escape and is followed by a character other than \ e n r t x, or with a
\* backslash that begins an escape at its end; parse_args takes no rule at
\* or after the first such text, fails at the first text that does not
\* parse, and no Arguments, hence no Runtime, exists for that command line.
C20_DefectiveRuleRejected ==
    /\ \A i \in 1..Len(argv) :
           DefectiveRuleText(argv[i])
           => /\ ~RuleParse(argv[i]).ok
              /\ argPos < i
              /\ Len(rewrite_rules) < i
              /\ argState \in {"parsing", "failed"}
    /\ argState = "failed"
       => /\ argError.value = argv[argPos + 1]
          /\ ~RuleParse(argv[argPos + 1]).ok
          /\ \A j \in 1..argPos : RuleParse(argv[j]).ok

\* parse_args has failed at a second rule with an unterminated backslash,
\* after it took the first rule
C20_Witness ==
    /\ argState = "failed"
    /\ argPos = 1
    /\ Len(rewrite_rules) = 1
    /\ UnterminatedBackslash(argv[2])
    /\ argError.error = "TrailingBackslash"

\* the two characters after the \x of the rule text s, which begins with
\* \x or with 1:\x; fewer if the part ends before
HexCharsOf(s) ==
    LET at == IF s[1] = Backslash THEN 3 ELSE 5
        part == IF s[1] = Backslash THEN SubSeq(s, 1, Len(s) - 2) ELSE s
    IN  SubSeq(part, at, Min(at + 1, Len(part)))

\* C21 as claimed: \x is accepted only when two characters follow and both
\* are hexadecimal digits (0-9, a-f, A-F); for any other two characters, a
\* sign followed by a hexadecimal digit included, and for fewer than two,
\* the rule is refused with InvalidHex.
C21_Claimed_HexDigitsOnly ==
    argState # "parsing"
    => LET hex == HexCharsOf(argv[1]) IN
       IF Len(hex) = 2 /\ HexDigitValue(hex[1]) # -1
                       /\ HexDigitValue(hex[2]) # -1
       THEN argState \in {"parsed", "running"}
       ELSE argState = "failed" /\ argError.error = "InvalidHex"

\* C22: a rule text escaped_from:escaped_to written from byte sequences from
\* (non-empty) and to, with \\ \e \n \r \t, \xhh in either case and
\* characters standing for their UTF-8 bytes, parses to exactly the rule
\* (from, to): the text is split at its first colon, a colon in TO is
\* literal, and a byte 0x3A of FROM comes from a \x3a or \x3A piece.
C22_ParseInvertsEscape ==
    argState # "parsing"
    => /\ argState \in {"parsed", "running"}
       /\ rewrite_rules = <<[from |-> TokensBytes(argTokens.from),
                             to |-> TokensBytes(argTokens.to)]>>
       /\ \A k \in 1..Len(argTokens.from) :
              Colon \in {argTokens.from[k].bytes[i] :
                            i \in 1..Len(argTokens.from[k].bytes)}
              => argTokens.from[k].text \in
                     {<<Backslash, LowerX, 51, 97>>, <<Backslash, LowerX, 51, 65>>}

\* a rule whose FROM is \x3A and a two-byte character and whose TO is a
\* colon has been parsed
C22_Witness ==
    /\ argState = "parsed"
    /\ argv = <<<<Backslash, LowerX, 51, 65, 233, Colon, Colon>>>>
    /\ rewrite_rules = <<[from |-> <<58, 195, 169>>, to |-> <<58>>]>>

(***************************************************************************)
(* C23 - C25: the ZWSP inserter                                            *)
(***************************************************************************)
\* the caller has written the whole input
ZwAllWritten == zpos = Len(zinput) /\ zpos > 0

\* a ZWSP starts at index k of s
ZwspAt(s, k) == k + 2 <= Len(s) /\ SubSeq(s, k, k + 2) = ZWSP

ContainsZwsp(s) == \E k \in 1..Len(s) : ZwspAt(s, k)

\* s holds an Up/Down arrow sequence
HasUpDownArrow(s) == \E i \in 1..Len(s) : ZwArrowEnd(s, i) > 0

HasDigit(s) == \E i \in 1..Len(s) : IsAsciiDigit(s[i])

\* C23 as claimed: once the whole input is written, the inner writer holds
\* what the regular-expression reference makes of the input: a ZWSP between
\* every Up/Down arrow sequence and the digit right after it, leftmost
\* matches that do not overlap, and nothing else changed.
C23_Claimed_MatchesReference ==
    ZwAllWritten => zout = ZwRunWithRegex(zinput)

\* C24: whatever the calls that delivered the bytes written so far, the
\* inner writer holds, and the inserter is in the state, that one call with
\* all of these bytes leaves.
C24_ChunkSplitInvariant ==
    \A whole \in {ZwWriteBuf("Idle", SubSeq(zinput, 1, zpos), TRUE)} :
        zout = whole.out /\ zstate = whole.state

\* C24 witness: an arrow sequence came in one call and the digit after it
\* alone in the next, and the ZWSP went between them.
C24_Witness ==
    /\ ZwAllWritten
    /\ zret = 1
    /\ Len(zout) >= 5
    /\ IsAsciiDigit(zinput[zpos])
    /\ ZwspAt(zout, Len(zout) - 3)

\* C25: for an input without a ZWSP, the output without its ZWSPs is the
\* input, and every ZWSP of the output has an ASCII digit right after it; an
\* input without an Up/Down arrow sequence, or without a digit, passes
\* unchanged.
C25_OnlyZwspBeforeDigitInserted ==
    \A written \in {SubSeq(zinput, 1, zpos)} :
        /\ ~ContainsZwsp(zinput) =>
              /\ StripZwsp(zout) = written
              /\ \A k \in 1..Len(zout) :
                    ZwspAt(zout, k) =>
                        k + 3 <= Len(zout) /\ IsAsciiDigit(zout[k + 3])
        /\ (~HasUpDownArrow(written) \/ ~HasDigit(written)) => zout = written

\* C25 witness: an input without a ZWSP got one, and more bytes after it.
C25_Witness ==
    /\ ZwAllWritten
    /\ ~ContainsZwsp(zinput)
    /\ Len(zout) = Len(zinput) + 3
    /\ \E k \in 1..(Len(zout) - 4) : ZwspAt(zout, k)

(***************************************************************************)
(* C26, C27: the notification channel                                      *)
(***************************************************************************)
\* the messages the delivery thread has received or can still receive
NtKept ==
    {ntChan[i] : i \in 1..Len(ntChan)}
        \cup {ntDelivered[i] : i \in 1..Len(ntDelivered)}
        \cup (IF ntDelPc = "deliver" THEN {ntMessage} ELSE {})

\* C26: as long as the output thread has not ended it can take its next
\* step, whatever the channel holds and wherever the delivery thread is: the
\* send returns at once and the loop goes on reading.
C26_OutputThreadNeverBlocks ==
    ntOutPc # "done" => ENABLED NtOutputStep

\* C26 witness: a send into the full channel has returned while the
\* delivery thread has not come back from its first delivery.
C26_Witness ==
    /\ ntLast.result = "Full"
    /\ ntOutPc = "read"
    /\ ntDelPc = "deliver"
    /\ ntDelivered = <<>>
    /\ Len(ntChan) = NotificationCapacity

\* C27 as claimed: the most recent notification handed to the channel is
\* never lost: it waits in the channel, is being delivered or was delivered,
\* also when the channel was full at the send.
C27_Claimed_MostRecentKept ==
    ntSends > 0 => ntSends \in NtKept

(***************************************************************************)
(* C28: adjust_line_wrapping returns                                       *)
(***************************************************************************)
\* C28 as claimed: the call returns after finitely many passes of its loop.
\* The loop has no input but the cursor and prev, so it returns only if no
\* pass that stays in the loop leaves both exactly as it found them.
C28_Claimed_EveryPassAdvances ==
    ~psres.returned =>
        \A r \in {OuterPass(pscursor, psprev, pswidth)} :
            r.stop \/ <<r.c, r.prev>> # <<pscursor, psprev>>

(***************************************************************************)
(* C30: the end of an OSC fragment                                         *)
(***************************************************************************)
\* a terminator of an OSC begins at index i of s: BEL, or ESC \
OscTerminatorAt(s, i) ==
    /\ i >= 3
    /\ i <= Len(s)
    /\ \/ s[i] = BEL
       \/ i < Len(s) /\ s[i] = ESC /\ s[i + 1] = Backslash

\* the index of the last byte of the earliest terminator in s
EarliestTerminatorEnd(s) ==
    LET i == CHOOSE k \in 3..Len(s) :
                 OscTerminatorAt(s, k)
                 /\ \A h \in 3..(k - 1) : ~OscTerminatorAt(s, h)
    IN  IF s[i] = BEL THEN i ELSE i + 1

\* C30 as claimed: the fragment of an OSC ends with the earliest terminator
\* in the slice, BEL or ST, whichever comes first.
C30_Claimed_EndsAtEarliestTerminator ==
    (fres.returned /\ Len(fslice) >= 2 /\ fslice[1] = ESC
        /\ fslice[2] = RBracket
        /\ \E k \in 3..Len(fslice) : OscTerminatorAt(fslice, k))
    => fres.frags[1].data = Take(fslice, EarliestTerminatorEnd(fslice))

(***************************************************************************)
(* C29: adjust_line_wrapping deletes, and nothing else                     *)
(***************************************************************************)
\* the escape sequences that end a line for extract_line
EndsLineAsEscape(f) ==
    f.esc \in {"EndSynchronizedUpdate", "ShowCursor",
               "SetWindowAndIconTitle", "PostNotification"}

\* the returned fragments res come from the parsed fragments orig by the
\* deletions of a join: a fragment is kept with its tag, less LF and CR at
\* its end, less spaces at its beginning when a line has ended before it
\* (joining: its LF or CR was deleted, or an escape sequence ended it) and
\* no text has come since; a cursor-forward or cursor-down fragment there
\* may go as a whole
RECURSIVE DeletionOnly(_, _, _)
DeletionOnly(orig, res, joining) ==
    IF orig = <<>> THEN res = <<>>
    ELSE
        \/ /\ joining
           /\ IsCuf(Head(orig)) \/ IsCud(Head(orig))
           /\ DeletionOnly(Tail(orig), res, TRUE)
        \/ /\ res # <<>>
           /\ Head(res).esc = Head(orig).esc
           /\ Head(res).payload = Head(orig).payload
           /\ \E a \in 0..Len(Head(orig).data) :
              \E b \in 0..(Len(Head(orig).data) - a) :
                 /\ Head(res).data
                       = SubSeq(Head(orig).data, a + 1,
                                Len(Head(orig).data) - b)
                 /\ a > 0 => joining
                 /\ \A i \in 1..a : Head(orig).data[i] = Space
                 /\ \A i \in (Len(Head(orig).data) - b + 1)
                                ..Len(Head(orig).data) :
                        Head(orig).data[i] \in {LF, CR}
                 /\ DeletionOnly(Tail(orig), Tail(res),
                                 IF b > 0 \/ EndsLineAsEscape(Head(orig))
                                 THEN TRUE
                                 ELSE joining /\ Head(orig).esc # "None")

\* the bytes of the first k parsed fragments
ParsedSize(k) == Len(FragmentsData(SubSeq(lres.parsed, 1, k)))

DvTextLen == FirstIn(stream, {ESC})

\* the stream's escape sequence
DvSequence == Drop(stream, DvTextLen)

\* C31: after a parse of a buffer that holds the text and only a part of
\* the escape sequence, all of the text and nothing of the sequence is
\* emitted and the part stays unconsumed; a parse that has the rest too
\* emits the sequence as one fragment, the last one, the same as
\* FragmentList::parse makes of the sequence alone, and everything is
\* consumed.
C31_DividedSequenceHeldThenWhole ==
    blast.op = "parse" =>
        /\ (DvTextLen < srcPos /\ srcPos < Len(stream)) =>
              /\ ~blast.full
              /\ emitted = Take(stream, DvTextLen)
              /\ end - start = srcPos - DvTextLen
              /\ \A i \in 1..Len(blast.fragments) :
                    blast.fragments[i].esc = "None"
        /\ srcPos = Len(stream) =>
              /\ emitted = stream
              /\ start = end
              /\ blast.fragments # <<>> =>
                    /\ <<blast.fragments[Len(blast.fragments)]>>
                          = FragmentListParse(DvSequence, FALSE)
                    /\ \A i \in 1..(Len(blast.fragments) - 1) :
                          blast.fragments[i].esc = "None"

\* C31 witness: a parse has emitted the text and holds the first five bytes
\* of a title back.
C31_Witness ==
    /\ blast.op = "parse"
    /\ blast.consumed = DvTextLen
    /\ DvTextLen > 0
    /\ end - start = 5
    /\ srcPos < Len(stream)
    /\ stream[DvTextLen + 3] = Digit0

(***************************************************************************)
(* Forced drains, position by position.                                    *)
(***************************************************************************)
\* the configured rules whose from is a prefix of rest
MatchingConfigured(rest) ==
    {k \in 1..Len(rawRules) :
        rawRules[k].from # <<>> /\ StartsWith(rest, rawRules[k].from)}

\* a drain that stood at offset i of bytes, with the rules in used still to
\* apply and wrote still to write, applied at each offset the longest
\* configured rule whose from is a prefix of what remained, and passed one
\* byte raw exactly where no rule matched
RECURSIVE LongestAtEachPosition(_, _, _, _)
LongestAtEachPosition(bytes, i, used, wrote) ==
    IF i >= Len(bytes) THEN used = <<>> /\ wrote = <<>>
    ELSE
        LET rest == Drop(bytes, i)
            hits == MatchingConfigured(rest)
        IN  IF hits = {}
            THEN /\ wrote # <<>>
                 /\ wrote[1] = rest[1]
                 /\ LongestAtEachPosition(bytes, i + 1, used, Tail(wrote))
            ELSE /\ used # <<>>
                 /\ StartsWith(rest, used[1].from)
                 /\ \A h \in hits :
                        Len(rawRules[h].from) <= Len(used[1].from)
                 /\ StartsWith(wrote, used[1].to)
                 /\ LongestAtEachPosition(bytes, i + Len(used[1].from),
                        Tail(used), Drop(wrote, Len(used[1].to)))

\* C32: a forced drain (poll timeout or end-of-stream) defers nothing: at
\* each offset of the pending bytes it applies the longest rule whose from
\* is a prefix of the bytes that remain, passes one byte raw only where no
\* rule matches, and leaves the accumulator empty.
C32_ForcedDrainTakesLongestMatch ==
    lastOp.op \in {"timeout", "eof"} =>
        /\ lastOp.after = lastOp.before
        /\ lastOp.consumed = Len(lastOp.after)
        /\ buffer = <<>>
        /\ LongestAtEachPosition(lastOp.after, 0, lastOp.used, lastOp.wrote)

\* C32 witness: rules 0 -> 1 2 and 0 1 -> (nothing); the byte 0 was
\* pending when the timeout fired and 1 2 was written for it.
C32_Witness ==
    /\ lastOp.op = "timeout"
    /\ lastOp.after = <<0>>
    /\ lastOp.wrote = <<1, 2>>
    /\ \E k \in 1..Len(rules) : rules[k].from = <<0, 1>>
    /\ buffer = <<>>

(***************************************************************************)
(* Failures of the sink and of the source.                                 *)
(***************************************************************************)
\* what holds once rewrite has returned an error, and at the end of a run
\* in which a call was interrupted
ErrorLeavesAccumulator ==
    /\ rstate = "error" =>
          /\ ~lastOp.ok
          /\ lastOp.failed = "write_all" => buffer = lastOp.after
          /\ lastOp.failed = "flush" =>
                 buffer = Drop(lastOp.after, lastOp.consumed)
          /\ lastOp.failed = "source" => buffer = lastOp.before
    /\ (rstate = "done" /\ interrupts > 0 /\ timeouts = 0) =>
          out = RewriteBytesNaively(rawRules, input)

\* what a step of rewrite may do around a failure or an interrupted call
ErrorStepsStop ==
    /\ rstate = "error" => UNCHANGED rwVars
    /\ (rstate' = "error" /\ lastOp'.failed = "write_all") =>
          /\ buffer' = buffer \o SubSeq(input, pos + 1, pos')
          /\ out' = out \o lastOp'.wrote
          /\ Len(lastOp'.wrote) <
                 Len(Flatten(Drain(rules, buffer', lastOp'.op # "read").writes))
    /\ (rstate' = "error" /\ lastOp'.failed = "source") =>
          buffer' = buffer /\ out' = out /\ pos' = pos
    /\ interrupts' # interrupts =>
          /\ rstate' = "running"
          /\ buffer' = buffer /\ out' = out /\ pos' = pos

\* C33: when the sink refuses a write of a drain, rewrite returns the error
\* and takes no further step (the write is not tried again), and the
\* accumulator holds every byte it held when that drain began; a failure of
\* poll or read other than an interrupted call ends rewrite the same way;
\* an interrupted call changes neither the accumulator, the bytes read nor
\* the bytes written, and the run that follows writes the reference
\* transform of the input. (When the flush after a drain that returned Ok
\* is refused, rewrite returns the error too, and the drained bytes are gone
\* from the accumulator: they had been written.)
C33_SinkErrorStopsAndKeepsPending ==
    [](ErrorLeavesAccumulator) /\ [][ErrorStepsStop]_vars

\* C33 witness: after an interrupted call, a read completed the
\* accumulator to two bytes or more, the drain wrote for the first of them,
\* the sink refused the next write, and both are still pending.
C33_Witness ==
    /\ rstate = "error"
    /\ lastOp.failed = "write_all"
    /\ lastOp.op = "read"
    /\ lastOp.before # <<>>
    /\ lastOp.wrote # <<>>
    /\ interrupts = 1
    /\ buffer = lastOp.after
    /\ Len(buffer) >= 2

(***************************************************************************)
(* Shape of the fragments of one parse.                                    *)
(***************************************************************************)
\* offset in the slice at which fragment i of frags begins
RECURSIVE FragmentOffset(_, _)
FragmentOffset(frags, i) ==
    IF i <= 1 THEN 0
    ELSE FragmentOffset(frags, i - 1) + Len(frags[i - 1].data)

\* C34: every fragment FragmentList::parse returns is non-empty and is the
\* bytes of the slice at its place (0 < consumed <= data.len() at every
\* step); a plain-text fragment holds no ESC and at most one line feed,
\* which is then its last byte; an escape-sequence fragment begins with ESC.
C34_FragmentsWellFormed ==
    fres.returned =>
        \A i \in 1..Len(fres.frags) :
            LET f   == fres.frags[i]
                off == FragmentOffset(fres.frags, i)
            IN  /\ Len(f.data) > 0
                /\ off + Len(f.data) <= Len(fslice)
                /\ f.data = SubSeq(fslice, off + 1, off + Len(f.data))
                /\ IF f.esc = "None"
                   THEN /\ \A k \in 1..Len(f.data) : f.data[k] # ESC
                        /\ \A k \in 1..(Len(f.data) - 1) : f.data[k] # LF
                   ELSE f.data[1] = ESC

\* C34 witness: a slice with two line feeds and an escape sequence, parsed
\* into a text fragment that ends with the first line feed, a second text
\* fragment that ends with the second, and an escape-sequence fragment.
C34_Witness ==
    /\ fres.returned
    /\ Len(fres.frags) >= 3
    /\ Cardinality({k \in 1..Len(fslice) : fslice[k] = LF}) = 2
    /\ \E i \in 1..Len(fres.frags) :
           /\ fres.frags[i].esc = "None"
           /\ fres.frags[i].data[Len(fres.frags[i].data)] = LF
    /\ \E i \in 1..Len(fres.frags) : fres.frags[i].esc \notin {"None", "Incomplete"}

(***************************************************************************)
(* ESC followed by a byte that introduces neither an OSC, a CSI nor a      *)
(* two-byte escape.                                                        *)
(***************************************************************************)
\* the slice begins with ESC and a byte other than ], [ and 0x40..0x5F
OtherEscapeForm(s) ==
    /\ Len(s) >= 2
    /\ s[1] = ESC
    /\ s[2] \notin ({RBracket, LBracket} \cup (64..95))

\* offset of the next ESC after the first byte of s, Len(s) when none
NextEscOrEnd(s) ==
    LET i == FirstIn(Tail(s), {ESC}) IN IF i = -1 THEN Len(s) ELSE 1 + i

\* C35 as claimed: for ESC followed by a byte that is neither ] nor [ nor
\* in 0x40..0x5F, the first fragment reaches to the next ESC or to the end
\* of the slice and is classified Other. (Slices whose sequence the parse
\* holds back or hands out as Incomplete are left aside.)
C35_Claimed_ExtendsToNextEsc ==
    (/\ fres.returned
     /\ OtherEscapeForm(fslice)
     /\ fres.frags # <<>>
     /\ fres.frags[1].esc # "Incomplete") =>
        /\ fres.frags[1].data = Take(fslice, NextEscOrEnd(fslice))
        /\ fres.frags[1].esc = "Other"

(***************************************************************************)
(* extend_from_read: what it moves, what it keeps, what it returns.        *)
(***************************************************************************)
\* C36 as claimed: an extend_from_read called while [start, end) holds at
\* least half of the capacity leaves the region at offset 0 with the bytes
\* read right after it; every extend_from_read keeps the unconsumed bytes
\* and their order; and an extend_from_read that follows a parse returns 0
\* only when the source has no more bytes.
C36_Claimed_ZeroOnlyAtEndOfStream ==
    blast.op = "read" =>
        LET len == blast.was.end - blast.was.start IN
        /\ 2 * len >= RfN => (start = 0 /\ end = len + blast.n)
        /\ end = start + len + blast.n
        /\ BufSlice(bdata, start, start + len) = blast.was.region
        /\ BufSlice(bdata, start + len, end)
               = SubSeq(stream, srcPos - blast.n + 1, srcPos)
        /\ (blast.n = 0 /\ blast.was.after_parse) => srcPos = Len(stream)

\* C38 as claimed: a second line that begins, after one or two spaces,
\* with a complete URL scheme (a letter, scheme characters, then ://) is
\* not joined onto the line before it, whatever that line is: what the call
\* emits up to the end of that line is the slice as it was.
C38_Claimed_NewUrlNotJoined ==
    (/\ lres.returned
     /\ lshape.indent \in SpaceIndents
     /\ StartsWithUrlScheme(lshape.second)
     /\ SecondLineEnds)
    => Comparable(lres.out, UpToSecondLine)

(***************************************************************************)
(* A URL scheme split by a forced wrap.                                    *)
(***************************************************************************)
\* length of the run of scheme characters line ends with
TrailingSchemeRun(line) ==
    CountWhileIn([i \in 1..Len(line) |-> line[Len(line) + 1 - i]],
                 {b \in 0..255 : IsSchemeChar(b)})

\* line ends with a scheme name: a run of scheme characters that begins
\* with a letter
EndsWithSchemeName(line) ==
    LET n == TrailingSchemeRun(line) IN
    n > 0 /\ IsAsciiAlphabetic(line[Len(line) - n + 1])

\* body begins with scheme characters (or none) and ://
BeginsWithRestOfScheme(body) ==
    LET n == CountWhileIn(body, {b \in 0..255 : IsSchemeChar(b)}) IN
    StartsWith(Drop(body, n), <<Colon, Slash, Slash>>)

\* the first line of the slice fills the terminal width, is not itself a URL
\* that runs to the end of the line, and the wrap falls at or inside
\* scheme://: the first line ends with the scheme name and the
\* second goes on, after one or two spaces, with the rest of the scheme and
\* ://, or the first line ends with scheme: and the second goes on with //
SchemeSplitByWrap ==
    /\ LineWidth(lshape.first) = lwidth
    /\ ~ShouldAttemptUrlUnwrap(lshape.first, lwidth)
    /\ lshape.brk # <<>>
    /\ lshape.indent \in SpaceIndents
    /\ lshape.brk2 # <<>>
    /\ \/ /\ EndsWithSchemeName(lshape.first)
          /\ BeginsWithRestOfScheme(lshape.second)
       \/ /\ lshape.first # <<>>
          /\ lshape.first[Len(lshape.first)] = Colon
          /\ EndsWithSchemeName(Take(lshape.first, Len(lshape.first) - 1))
          /\ StartsWith(lshape.second, <<Slash, Slash>>)

\* the slice with its first two lines already joined
JoinedSlice ==
    lshape.prefix \o lshape.first \o lshape.second \o lshape.brk2
        \o lshape.tail

C39_PendingIsStrictPrefix ==
    /\ lastOp.op = "read" =>
          (buffer = <<>> \/ StrictPrefixOfSomeFrom(buffer))
    /\ rstate = "running" =>
          /\ buffer = <<>> \/ StrictPrefixOfSomeFrom(buffer)
          /\ Len(buffer) <= MaxFromLen - 1
          /\ IF rules = <<>> THEN buffer = <<>>
                             ELSE Len(buffer) < LongestFrom
          /\ (PollTimeout(buffer) >= 0)
                 <=> (buffer # <<>> /\ StrictPrefixOfSomeFrom(buffer))

\* C39 witness: a read brought three bytes; the drain wrote for the first
\* and holds the other two, which begin a from of three bytes, with the
\* timeout armed.
C39_Witness ==
    /\ rstate = "running"
    /\ lastOp.op = "read"
    /\ Len(lastOp.after) = 3
    /\ lastOp.consumed = 1
    /\ Len(buffer) = 2
    /\ LongestFrom = 3
    /\ PollTimeout(buffer) = TimeoutTicks

(***************************************************************************)
(* A continuation line with a space in it.                                 *)
(***************************************************************************)
\* the second line as extract_line flattens it: its indent as spaces (a
\* cursor-forward counts one column), then its body
SecondLineFlat ==
    (IF lshape.indent = LwCuf THEN <<Space>> ELSE lshape.indent)
        \o lshape.second

\* the first line is a URL line at the wrap edge, and the second line, with
\* its break, is a candidate continuation whose content holds a space
ProseAfterUrlLine ==
    /\ ShouldAttemptUrlUnwrap(lshape.first, lwidth)
    /\ lshape.brk # <<>>
    /\ lshape.brk2 # <<>>
    /\ UrlContinuationIndent(SecondLineFlat) # -1
    /\ \E i \in 1..Len(lshape.second) : lshape.second[i] = Space

=============================================================================
